---- MODULE Spec2Model ----
(***************************************************************************)
(* Activity monitoring core of the Hyperliquid order tracker bot:          *)
(* checkForNewOrders (src/bot.js), the event source adapter                *)
(* getRecentActivity (src/unnamed/part_000, the HyperliquidAPI class) and  *)
(* the processed-event store (src/database.js), with the market-listing    *)
(* detector getNewMarkets and the /add and /remove command handlers.       *)
(*                                                                         *)
(* Every `await` of the JavaScript code is a point where another callback  *)
(* of the single-threaded event loop can run, so every action below is one *)
(* awaited call resolving, followed by the synchronous code up to the next *)
(* await.  Time is in milliseconds, as Date.now() and the venue count it.   *)
(***************************************************************************)
EXTENDS Integers, Sequences, FiniteSets, Bags, TLC

\* ---------------------------------------------------------------- bounds
MaxTime      == 3   \* the clock stops after this many look-back periods
MaxPublished == 1   \* activities the venue publishes
MaxRuns      == 2   \* cron ticks that start a sweep
MaxInFlight  == 2   \* sweeps running at the same time
MaxFailures  == 1   \* injected failures (database, upstream, Telegram)
MaxRestarts  == 1   \* process restarts
MaxCommands  == 1   \* /remove commands
MaxSlices    == 3   \* slices the venue reports of one TWAP order
MaxSweeps    == 3   \* sweeps over the slices of one TWAP order

\* ------------------------------------------------------ program constants
DefaultLookback == 60000    \* 60 * 1000
LargeStake      == 10000    \* amount > 10000
batchSize       == 30       \* Telegram rate limit protection

Wallets == {"w1", "w2"}
Users   == {"u1", "u2"}
\* row order of the SELECTs (no ORDER BY: insertion order of the rows)
WalletRows == <<"w1", "w2">>
UserRows   == <<"u1", "u2">>
\* the subscriptions present when the model starts: two subscribers of w1
InitialTracking == {<<"u1", "w1">>, <<"u2", "w1">>}
\* values Math.random() can return, as they print in a template string
RandomValues == {"0.25", "0.75"}
\* the four info queries of getRecentActivity, in the order it concatenates
Queries == <<"fill", "order", "twap_fill", "staking_activity">>

VARIABLES
    now,               \* Date.now()
    source,            \* activities the venue has published
    tracking,          \* tracked_wallets rows with is_active = 1
    processed,         \* processed_orders rows: [id, wallet_address, order_id]
    lastCheckTimes,    \* Map wallet -> time (0: no entry)
    activeTwapOrders,  \* Map <<wallet, twapId>> -> reference to a status object
    twapObjects,       \* the status objects that are still referenced
    sweep,             \* the checkForNewOrders invocations in flight
    cmd,               \* the /remove handler in flight
    runs,              \* sweeps started so far
    sent,              \* bag of bot.sendMessage calls of the sweeps
    idLog,             \* <<activity, activityId>> pairs computed so far
    stakeLog,          \* staking events that passed the large-stake test
    failures, restarts, commands,
    universe,          \* the instruments the venue lists: perps and spots
    cachedMarkets,     \* hlAPI._cachedMarkets
    lastMarketUpdate,  \* hlAPI._lastMarketUpdate
    marketCheck,       \* the getNewMarkets invocation in flight
    marketLog,         \* what the latest getNewMarkets invocation returned
    storeLog,          \* the latest call of the processed-event store
    untracked,         \* tracked_wallets rows with is_active = 0
    adds               \* the /add handlers in flight

addVars == <<untracked, adds>>

marketVars == <<universe, cachedMarkets, lastMarketUpdate, marketCheck, marketLog>>

vars == <<now, source, tracking, processed, lastCheckTimes, activeTwapOrders,
          twapObjects, sweep, cmd, runs, sent, idLog, stakeLog, failures, restarts, commands,
          marketVars, storeLog, addVars>>

\* this._cachedMarkets = null
NoMarkets == [held |-> FALSE, perps |-> <<>>, spots |-> <<>>]

\* no getNewMarkets invocation in flight
NoCheck == [pc |-> "idle", currentTime |-> 0, venue |-> [perps |-> <<>>, spots |-> <<>>],
            currentMeta |-> [ok |-> FALSE, universe |-> <<>>]]

\* the /add handlers that may be in flight at once
MaxAdds == 2

AddSlots == 1 .. MaxAdds

\* no /add handler in the slot.  n: the number of the command among all
\* commands; outcome: how the handler decided; seen: the subscriptions and
\* lastCheckTimes when the command arrived
NoAdd == [pc |-> "idle", user |-> "", wallet |-> "", n |-> 0, outcome |-> "none",
          seen |-> <<>>]

\* no call of the processed-event store yet
NoCall == [calls |-> 0, call |-> "none", wallet |-> "", order_id |-> "",
           before |-> {}, result |-> FALSE, marked |-> {}]

\* no getNewMarkets invocation has returned yet
NoReturn == [total |-> 0, nth |-> 0, start |-> 0, currentTime |-> 0,
             venue |-> [perps |-> <<>>, spots |-> <<>>],
             cached |-> NoMarkets, update |-> 0, path |-> "none",
             fetched |-> [perps |-> <<>>, spots |-> <<>>],
             newPerps |-> <<>>, newSpots |-> <<>>,
             cachedAfter |-> NoMarkets, updateAfter |-> 0]

\* one instrument of a universe
Asset(name, szDecimals) == [name |-> name, szDecimals |-> szDecimals]

\* the venue lists BTC and PURR/USDC when the process starts
InitMarkets ==
    /\ universe = [perps |-> <<Asset("BTC", 5)>>, spots |-> <<Asset("PURR/USDC", 0)>>]
    /\ cachedMarkets = NoMarkets
    /\ lastMarketUpdate = 0
    /\ marketCheck = NoCheck
    /\ marketLog = NoReturn

\* ------------------------------------------------------------- sequences
Range(s) == {s[i] : i \in DOMAIN s}

\* the subsequence of `rows` whose elements are in S
RECURSIVE Rows(_, _)
Rows(rows, S) ==
    IF rows = <<>> THEN <<>>
    ELSE IF Head(rows) \in S THEN <<Head(rows)>> \o Rows(Tail(rows), S)
         ELSE Rows(Tail(rows), S)

\* some enumeration of a finite set (the order the venue returns its rows in)
RECURSIVE SetToSeq(_)
SetToSeq(S) ==
    IF S = {} THEN <<>>
    ELSE LET x == CHOOSE y \in S : TRUE IN <<x>> \o SetToSeq(S \ {x})

\* Array.prototype.sort is stable: insert x after the elements that do not
\* compare greater than it
RECURSIVE InsertByTime(_, _, _)
InsertByTime(x, s, asc) ==
    IF s = <<>> THEN <<x>>
    ELSE IF (IF asc THEN Head(s).time - x.time ELSE x.time - Head(s).time) > 0
         THEN <<x>> \o s
         ELSE <<Head(s)>> \o InsertByTime(x, Tail(s), asc)

RECURSIVE SortByTime(_, _)
SortByTime(s, asc) ==
    IF s = <<>> THEN <<>>
    ELSE InsertByTime(s[Len(s)], SortByTime(SubSeq(s, 1, Len(s) - 1), asc), asc)

RECURSIVE Filter(_, _)
Filter(s, S) ==
    IF s = <<>> THEN <<>>
    ELSE IF Head(s) \in S THEN <<Head(s)>> \o Filter(Tail(s), S)
         ELSE Filter(Tail(s), S)

\* ------------------------------------------------------------ activities
\* One activity as getRecentActivity returns it.  oid, tid = 0 and hash = ""
\* stand for a missing field (all of them falsy in JavaScript).  A staking
\* activity is an entry of the venue's delegatorHistory with type added: the
\* amount staked is inside its delta (delta.delegate.amount, delta.cDeposit.wei,
\* delta.cWithdraw.wei: what formatStakingMessage reads), here the field delta;
\* amount is the entry's top-level field `amount`, 0 when the entry has none.
\* closedPnl = 0 stands for a fill without closedPnl (falsy).  coin and side
\* are those of the venue's fills ('B' or 'A'); the activities of the model
\* are of one instrument and side, except the slices that say otherwise.
Activity(type, user, time, oid, tid, hash, amount, delta, twapId, done, cancelled, sz, closedPnl) ==
    [type |-> type, user |-> user, time |-> time, oid |-> oid, tid |-> tid,
     hash |-> hash, amount |-> amount, delta |-> delta, twapId |-> twapId,
     isTwapDone |-> done, isTwapCancelled |-> cancelled, sz |-> sz,
     closedPnl |-> closedPnl, coin |-> "ETH", side |-> "B"]

\* `${activity.time}_${activity.oid || activity.tid || activity.hash || Math.random()}`
activityId(activity, random) ==
    ToString(activity.time) \o "_" \o
        (IF activity.oid # 0 THEN ToString(activity.oid)
         ELSE IF activity.tid # 0 THEN ToString(activity.tid)
         ELSE IF activity.hash # "" THEN activity.hash
         ELSE random)

\* an adapter whose failed query takes the whole result with it (the four
\* methods without their own try/catch); C25 does not hold of it
getRecentActivityAllOrNothing(user, sinceTime, failed) ==
    IF failed # {} THEN <<>>
    ELSE SortByTime(SetToSeq({a \in source : /\ a.user = user
                                              /\ sinceTime # 0 => a.time > sinceTime}),
                    FALSE)

\* getRecentActivity: the four queries (a failed one yields []), concatenated,
\* filtered by time > sinceTime when sinceTime is truthy, sorted newest first
getRecentActivity(user, sinceTime, failed) ==
    LET answer(q) == IF q \in failed THEN <<>>
                     ELSE SetToSeq({a \in source : a.user = user /\ a.type = q})
        all  == answer(Queries[1]) \o answer(Queries[2]) \o
                answer(Queries[3]) \o answer(Queries[4])
        kept == IF sinceTime # 0
                THEN Filter(all, {a \in Range(all) : a.time > sinceTime})
                ELSE all
    IN SortByTime(kept, FALSE)

\* db.getAllTrackedWallets: SELECT DISTINCT wallet_address ... is_active = 1
getAllTrackedWallets == Rows(WalletRows, {t[2] : t \in tracking})

\* a lookup that returns the first subscriber only; C14 does not hold of it
getUsersTrackingWalletFirst(walletAddress) ==
    LET rows == Rows(UserRows, {t[1] : t \in {x \in tracking : x[2] = walletAddress}})
    IN IF rows = <<>> THEN rows ELSE <<Head(rows)>>

\* db.getUsersTrackingWallet
getUsersTrackingWallet(walletAddress) ==
    Rows(UserRows, {t[1] : t \in {x \in tracking : x[2] = walletAddress}})

\* db.getAllUsers: every row of users has is_active = 1
getAllUsers == UserRows

\* UNIQUE(wallet_address, order_id): the keys of the rows of a store
Keys(store) == {<<row.wallet_address, row.order_id>> : row \in store}

\* the greatest id of a store (rows are never deleted), 0 if it is empty
lastID(store) ==
    IF store = {} THEN 0 ELSE CHOOSE n \in {row.id : row \in store} :
                                  \A row \in store : row.id <= n

\* db.isOrderProcessed: SELECT id ... WHERE wallet_address = ? AND order_id = ?
isOrderProcessed(walletAddress, orderId) == <<walletAddress, orderId>> \in Keys(processed)

\* INSERT OR REPLACE: the row of the key is deleted and a new one inserted;
\* C18 does not hold of it
markOrderProcessedReplace(store, walletAddress, orderId) ==
    {row \in store : <<row.wallet_address, row.order_id>> # <<walletAddress, orderId>>}
        \cup {[id |-> lastID(store) + 1, wallet_address |-> walletAddress,
                order_id |-> orderId]}

\* a store with a retention rule that keeps the latest record of each wallet
\* only; C31 does not hold of it
markOrderProcessedPruned(store, walletAddress, orderId) ==
    {row \in store : row.wallet_address # walletAddress}
        \cup {[id |-> lastID(store) + 1, wallet_address |-> walletAddress,
                order_id |-> orderId]}

\* a store that acknowledges the insert without keeping the row; C2 does not
\* hold of it
markOrderProcessedDropped(store, walletAddress, orderId) == store

\* db.markOrderProcessed: INSERT OR IGNORE, a row whose key is in the store
\* is not inserted; id INTEGER PRIMARY KEY AUTOINCREMENT
markOrderProcessed(store, walletAddress, orderId) ==
    IF <<walletAddress, orderId>> \in Keys(store) THEN store
    ELSE store \cup {[id |-> lastID(store) + 1, wallet_address |-> walletAddress,
                      order_id |-> orderId]}

\* --------------------------------------------------- checkForNewOrders
\* The local variables of one invocation.  wallets: the rest of the for-of
\* loop, its head the wallet being processed; batch: the rest of
\* nonTwapActivities; groups: the rest of twapFills; todo: the rest of the
\* user loop that is sending; twapStatus: the reference held in twapStatus;
\* allUsers, i: the locals of sendLargeStakingNotificationToAll; fetched: the
\* clock when getRecentActivity returned the batch (no variable of the code:
\* it is kept to state the fetch windows).
Idle ==
    [pc |-> "idle", run |-> 0, wallets |-> <<>>, since |-> 0, recent |-> <<>>,
     batch |-> <<>>, groups |-> <<>>, usersTracking |-> <<>>, todo |-> <<>>,
     activityId |-> "", twapStatus |-> 0, allUsers |-> <<>>, i |-> 0,
     fetched |-> 0]

Slots == 1 .. MaxInFlight

walletOf(s) == Head(s.wallets)

\* the state after the synchronous code that follows an await
St(s, lct, atw, objs) == [s |-> s, lct |-> lct, atw |-> atw, objs |-> objs]

\* a sweep without the default: a wallet with no entry is fetched with no
\* since-time at all; C26 does not hold of it
nextWalletNoDefault(s, lct, atw, objs) ==
    IF s.wallets = <<>> THEN St(Idle, lct, atw, objs)
    ELSE St([Idle EXCEPT !.pc = "getRecentActivity", !.run = s.run,
                         !.wallets = s.wallets, !.since = lct[Head(s.wallets)]],
            lct, atw, objs)

\* for (const walletAddress of trackedWallets) { lastCheckTime = ...; await getRecentActivity
nextWallet(s, lct, atw, objs) ==
    IF s.wallets = <<>> THEN St(Idle, lct, atw, objs)
    ELSE St([Idle EXCEPT !.pc = "getRecentActivity", !.run = s.run,
                         !.wallets = s.wallets,
                         !.since = IF lct[Head(s.wallets)] # 0
                                   THEN lct[Head(s.wallets)]
                                   ELSE now - DefaultLookback],
            lct, atw, objs)

\* lastCheckTimes.set(walletAddress, Date.now()) is the last statement of the
\* try block: it runs when nothing threw
checkpoint(lct, walletAddress, threw) ==
    IF threw THEN lct ELSE [lct EXCEPT ![walletAddress] = now]

endWallet(s, lct, atw, objs, threw) ==
    nextWallet([s EXCEPT !.wallets = Tail(@)],
               checkpoint(lct, walletOf(s), threw), atw, objs)

\* a sweep without the inner try/catch: the error reaches the outer catch and
\* the remaining wallets are not visited; C8 does not hold of it
catchWalletAbort(s, lct, atw, objs) == St(Idle, lct, atw, objs)

\* catch (error) { console.error(`Error checking wallet ...`) } of the wallet
catchWallet(s, lct, atw, objs) == endWallet(s, lct, atw, objs, TRUE)

\* the TWAP fills of recentActivity grouped by twapId, in Map insertion order
RECURSIVE groupTwapFills(_, _)
groupTwapFills(recent, groups) ==
    IF recent = <<>> THEN groups
    ELSE LET a == Head(recent) IN
         IF a.type # "twap_fill" THEN groupTwapFills(Tail(recent), groups)
         ELSE IF \E g \in DOMAIN groups : groups[g].twapId = a.twapId
              THEN groupTwapFills(Tail(recent),
                     [g \in DOMAIN groups |->
                        IF groups[g].twapId = a.twapId
                        THEN [groups[g] EXCEPT !.fills = Append(@, a)]
                        ELSE groups[g]])
              ELSE groupTwapFills(Tail(recent),
                     Append(groups, [twapId |-> a.twapId, fills |-> <<a>>]))

\* a grouping that leaves the TWAP fills among the other activities too, so
\* that each slice is notified on its own; C27 does not hold of it
nonTwapActivitiesAll(recent) == recent

\* nonTwapActivities: the activities whose type is not 'twap_fill'
nonTwapActivities(recent) ==
    Filter(recent, {a \in Range(recent) : a.type # "twap_fill"})

\* a TWAP loop that does not sort: the group as getRecentActivity delivered
\* it, newest first; C28 does not hold of it
sortedFillsAsDelivered(s) == Head(s.groups).fills

\* fills.sort((a, b) => a.time - b.time) of the group being processed
sortedFills(s) == SortByTime(Head(s.groups).fills, TRUE)

twapKey(s) == <<walletOf(s), Head(s.groups).twapId>>

\* a reference that no live object uses
newRef(objs) == CHOOSE r \in 1 .. (Cardinality(DOMAIN objs) + 1) : r \notin DOMAIN objs

\* a TWAP loop that leaves the entry of a finished order in the map; C30
\* does not hold of it
deleteNothing(atw, key) == atw

\* activeTwapOrders.delete(walletTwapKey)
delete(atw, key) == [k \in DOMAIN atw \ {key} |-> atw[k]]

\* a counter of batches instead of slices; C12 does not hold of it
addFillsOne(totalFills, fills) == totalFills + 1

\* twapStatus.totalFills += fills.length
addFills(totalFills, fills) == totalFills + Len(fills)

RECURSIVE processTwap(_, _, _, _)
RECURSIVE updateTwap(_, _, _, _)
\* for (const [twapId, fills] of twapFills): lines 897-923 up to the first send
processTwap(s, lct, atw, objs) ==
    IF s.groups = <<>> THEN endWallet(s, lct, atw, objs, FALSE)
    ELSE LET firstFill == sortedFills(s)[1]
             ref == newRef(objs)
         IN IF twapKey(s) \notin DOMAIN atw
            THEN LET atw1  == atw @@ (twapKey(s) :> ref)
                     objs1 == objs @@ (ref :> [startTime   |-> firstFill.time,
                                               totalFills  |-> 0,
                                               coin        |-> firstFill.coin,
                                               side        |-> firstFill.side,
                                               initialSize |-> firstFill.sz,
                                               batches     |-> <<>>,
                                               flagged     |-> FALSE])
                 IN IF s.usersTracking # <<>>
                    THEN St([s EXCEPT !.pc = "twapStart", !.todo = s.usersTracking],
                            lct, atw1, objs1)
                    ELSE updateTwap(s, lct, atw1, objs1)
            ELSE updateTwap(s, lct, atw, objs)

\* a TWAP loop that examines the terminal flag before it adds the batch, and
\* adds it only when the order goes on; C29 does not hold of it
updateTwapFlagFirst(s, lct, atw, objs) ==
    LET fills    == sortedFills(s)
        lastFill == fills[Len(fills)]
        ref      == atw[twapKey(s)]
    IN IF lastFill.isTwapDone \/ lastFill.isTwapCancelled
       THEN St([s EXCEPT !.pc = "twapEnd", !.todo = s.usersTracking, !.twapStatus = ref],
               lct, atw, objs)
       ELSE processTwap([s EXCEPT !.groups = Tail(@)], lct, atw,
                        [objs EXCEPT ![ref].totalFills = addFills(@, fills),
                                     ![ref].batches = Append(@, Len(fills))])

\* lines 925-946 up to the first send: twapStatus = activeTwapOrders.get(key)
\* (batches and flagged, which the code does not keep, are the list of the
\* fills.length added so far and whether a fill added so far carried a
\* terminal flag)
\* is undefined when another sweep deleted the key meanwhile, and then
\* twapStatus.totalFills throws a TypeError
updateTwap(s, lct, atw, objs) ==
    IF twapKey(s) \notin DOMAIN atw THEN catchWallet(s, lct, atw, objs)
    ELSE LET fills    == sortedFills(s)
             lastFill == fills[Len(fills)]
             ref      == atw[twapKey(s)]
             objs1    == [objs EXCEPT ![ref].totalFills = addFills(@, fills),
                                      ![ref].batches = Append(@, Len(fills)),
                                      ![ref].flagged =
                                          @ \/ \E n \in DOMAIN fills :
                                                   fills[n].isTwapDone \/ fills[n].isTwapCancelled]
         IN IF lastFill.isTwapDone \/ lastFill.isTwapCancelled
            THEN IF s.usersTracking # <<>>
                 THEN St([s EXCEPT !.pc = "twapEnd", !.todo = s.usersTracking,
                                   !.twapStatus = ref],
                         lct, atw, objs1)
                 ELSE processTwap([s EXCEPT !.groups = Tail(@)], lct,
                                  delete(atw, twapKey(s)), objs1)
            ELSE processTwap([s EXCEPT !.groups = Tail(@)], lct, atw, objs1)

\* for (const activity of nonTwapActivities) { activityId = ...; await isOrderProcessed
nextActivity(s, lct, atw, objs) ==
    IF s.batch # <<>>
    THEN St([s EXCEPT !.pc = "isOrderProcessed", !.activityId = ""], lct, atw, objs)
    ELSE processTwap(s, lct, atw, objs)

\* for (const user of usersTracking) of lines 880-892
userLoop(s, lct, atw, objs) ==
    IF s.usersTracking # <<>>
    THEN St([s EXCEPT !.pc = "sendMessage", !.todo = s.usersTracking], lct, atw, objs)
    ELSE nextActivity([s EXCEPT !.batch = Tail(@)], lct, atw, objs)

\* a send loop that a rejected send leaves; C9 does not hold of it
afterSendStop(todo, ok) == IF ok THEN Tail(todo) ELSE <<>>

\* try { ... await bot.sendMessage } catch { console.error }: the loop goes on
\* to the next user whether the send resolved or rejected
afterSend(todo, ok) == Tail(todo)

\* activity.type === 'staking_activity' and parseFloat(activity.amount || 0) > 10000
isLargeStake(activity) ==
    activity.type = "staking_activity" /\ activity.amount > LargeStake

\* ------------------------------------------------------ message contents
\* `${n} ${word}${n > 1 ? 's' : ''}`
plural(n, word) == ToString(n) \o " " \o word \o (IF n > 1 THEN "s" ELSE "")

formatDuration(seconds) ==
    IF seconds < 60 THEN ToString(seconds) \o " seconds"
    ELSE LET minutes == seconds \div 60 IN
         IF minutes < 60 THEN plural(minutes, "minute")
         ELSE LET hours == minutes \div 60
                  remainingMinutes == minutes % 60
              IN plural(hours, "hour") \o " " \o plural(remainingMinutes, "minute")

\* Math.round(ms / 1000): the nearest integer, halves upwards
roundSeconds(ms) == (ms + 500) \div 1000

\* the figures a message reports; a message of an activity or a broadcast
\* reports none of them
NoReport == [pair |-> "", side |-> "", size |-> 0, time |-> 0, totalFills |-> 0,
             seconds |-> 0, duration |-> "", pnl |-> 0]

\* a start message without the size; C13 does not hold of it
startReportNone(firstFill) == NoReport

\* formatTwapStartMessage: Pair, Side (toUpperCase() of the venue's 'B' and
\* 'A' is the same string), Total Size, Start Time
startReport(firstFill) ==
    [NoReport EXCEPT !.pair = firstFill.coin, !.side = firstFill.side,
                     !.size = firstFill.sz, !.time = firstFill.time]

\* formatTwapCompleteMessage / formatTwapCancelMessage: Pair, Side, Start Time,
\* Total (Initial) Size,
\* Total Fills (Fills Before Cancel), Duration (`seconds` is the local
\* variable duration, which formatDuration prints), Final PnL (PnL)
endReport(lastFill, twapStatus) ==
    LET duration == roundSeconds(lastFill.time - twapStatus.startTime)
    IN [pair       |-> lastFill.coin,
        side       |-> lastFill.side,
        time       |-> twapStatus.startTime,
        size       |-> twapStatus.initialSize,
        totalFills |-> twapStatus.totalFills,
        seconds    |-> duration,
        duration   |-> formatDuration(duration),
        pnl        |-> lastFill.closedPnl]

\* ------------------------------------------------------------- the log
\* one bot.sendMessage call of a sweep and how it resolved
Message(s, to, kind, activity, info, ok) ==
    [run |-> s.run, to |-> to, kind |-> kind, wallet |-> walletOf(s),
     activity |-> activity, activityId |-> s.activityId, info |-> info, ok |-> ok]

\* the objects still reachable from the map or from a sweep's twapStatus
collect(objs, atw, sw) ==
    LET live == {atw[k] : k \in DOMAIN atw} \cup {sw[j].twapStatus : j \in Slots}
    IN [r \in DOMAIN objs \cap live |-> objs[r]]

\* sweep i goes on with the state st
resume(i, st) ==
    /\ sweep' = [sweep EXCEPT ![i] = st.s]
    /\ lastCheckTimes' = st.lct
    /\ activeTwapOrders' = st.atw
    /\ twapObjects' = collect(st.objs, st.atw, [sweep EXCEPT ![i] = st.s])

\* a call may reject while failures can still be injected
fail(n) == /\ failures + n <= MaxFailures
           /\ failures' = failures + n

\* ------------------------------------------------------------- actions
\* cron.schedule(monitoringInterval, checkForNewOrders): every tick calls the
\* function, whether or not an earlier call has returned
StartSweep(limit) ==
    /\ runs < limit
    /\ \E i \in Slots :
        /\ sweep[i].pc = "idle"
        /\ \A j \in Slots : j < i => sweep[j].pc # "idle"
        /\ sweep' = [sweep EXCEPT ![i] = [Idle EXCEPT !.pc = "getAllTrackedWallets",
                                                      !.run = runs + 1]]
    /\ runs' = runs + 1
    /\ UNCHANGED <<now, source, tracking, processed, lastCheckTimes,
                   activeTwapOrders, twapObjects, cmd, sent, idLog, stakeLog,
                   failures, restarts, commands,
                   marketVars, storeLog, addVars>>

Tick == StartSweep(MaxRuns)

\* await db.getAllTrackedWallets() resolves, or rejects into the outer catch
GetAllTrackedWallets(i) ==
    /\ sweep[i].pc = "getAllTrackedWallets"
    /\ \/ /\ resume(i, nextWallet([sweep[i] EXCEPT !.wallets = getAllTrackedWallets],
                                  lastCheckTimes, activeTwapOrders, twapObjects))
          /\ UNCHANGED failures
       \/ /\ fail(1)
          /\ resume(i, St(Idle, lastCheckTimes, activeTwapOrders, twapObjects))
    /\ UNCHANGED <<now, source, tracking, processed, cmd, runs, sent, idLog,
                   stakeLog, restarts, commands,
                   marketVars, storeLog, addVars>>

\* await hlAPI.getRecentActivity(walletAddress, lastCheckTime) resolves
GetRecentActivity(i) ==
    /\ sweep[i].pc = "getRecentActivity"
    /\ \E failed \in SUBSET Range(Queries) :
        LET recentActivity == getRecentActivity(walletOf(sweep[i]), sweep[i].since, failed)
        IN /\ fail(Cardinality(failed))
           /\ IF Len(recentActivity) > 0
              THEN resume(i, St([sweep[i] EXCEPT !.pc = "getUsersTrackingWallet",
                                                 !.recent = recentActivity,
                                                 !.fetched = now],
                                lastCheckTimes, activeTwapOrders, twapObjects))
              ELSE resume(i, endWallet(sweep[i], lastCheckTimes, activeTwapOrders,
                                       twapObjects, FALSE))
    /\ UNCHANGED <<now, source, tracking, processed, cmd, runs, sent, idLog,
                   stakeLog, restarts, commands,
                   marketVars, storeLog, addVars>>

\* await db.getUsersTrackingWallet(walletAddress) resolves or rejects
GetUsersTrackingWallet(i) ==
    /\ sweep[i].pc = "getUsersTrackingWallet"
    /\ \/ /\ resume(i, nextActivity(
                  [sweep[i] EXCEPT !.usersTracking = getUsersTrackingWallet(walletOf(sweep[i])),
                                   !.batch = nonTwapActivities(sweep[i].recent),
                                   !.groups = groupTwapFills(sweep[i].recent, <<>>),
                                   !.recent = <<>>],
                  lastCheckTimes, activeTwapOrders, twapObjects))
          /\ UNCHANGED failures
       \/ /\ fail(1)
          /\ resume(i, catchWallet(sweep[i], lastCheckTimes, activeTwapOrders, twapObjects))
    /\ UNCHANGED <<now, source, tracking, processed, cmd, runs, sent, idLog,
                   stakeLog, restarts, commands,
                   marketVars, storeLog, addVars>>

\* activityId is computed (Math.random() drawn when the activity has no oid,
\* tid or hash) and await db.isOrderProcessed resolves or rejects
IsOrderProcessed(i) ==
    /\ sweep[i].pc = "isOrderProcessed"
    /\ \E random \in RandomValues :
        LET activity == Head(sweep[i].batch)
            id       == activityId(activity, random)
        IN /\ idLog' = idLog \cup {<<activity, id>>}
           /\ \/ /\ UNCHANGED failures
                 /\ IF isOrderProcessed(walletOf(sweep[i]), id)
                    THEN resume(i, nextActivity([sweep[i] EXCEPT !.batch = Tail(@)],
                                   lastCheckTimes, activeTwapOrders, twapObjects))
                    ELSE resume(i, St([sweep[i] EXCEPT !.pc = "markOrderProcessed",
                                                       !.activityId = id],
                                   lastCheckTimes, activeTwapOrders, twapObjects))
              \/ /\ fail(1)
                 /\ resume(i, catchWallet(sweep[i], lastCheckTimes, activeTwapOrders,
                                          twapObjects))
    /\ UNCHANGED <<now, source, tracking, processed, cmd, runs, sent, stakeLog,
                   restarts, commands,
                   marketVars, storeLog, addVars>>

\* await db.markOrderProcessed resolves or rejects; then the large-stake test
MarkOrderProcessed(i) ==
    /\ sweep[i].pc = "markOrderProcessed"
    /\ LET activity == Head(sweep[i].batch)
           large    == isLargeStake(activity)
       IN \/ /\ UNCHANGED failures
             /\ processed' = markOrderProcessed(processed, walletOf(sweep[i]),
                                                sweep[i].activityId)
             /\ stakeLog' = IF activity.type = "staking_activity"
                            THEN stakeLog \cup {[run |-> sweep[i].run, activity |-> activity,
                                                 subscribers |-> Len(sweep[i].usersTracking),
                                                 alert |-> large]}
                            ELSE stakeLog
             /\ IF large
                THEN resume(i, St([sweep[i] EXCEPT !.pc = "getAllUsers"],
                               lastCheckTimes, activeTwapOrders, twapObjects))
                ELSE resume(i, userLoop(sweep[i], lastCheckTimes, activeTwapOrders,
                                        twapObjects))
          \/ /\ fail(1)
             /\ UNCHANGED <<processed, stakeLog>>
             /\ resume(i, catchWallet(sweep[i], lastCheckTimes, activeTwapOrders,
                                      twapObjects))
    /\ UNCHANGED <<now, source, tracking, cmd, runs, sent, idLog, restarts, commands,
                   marketVars, storeLog, addVars>>

\* a broadcast without its own try/catch: a rejected getAllUsers reaches the
\* catch of the wallet, past the loop over the subscribers; C39 does not hold
\* of it
GetAllUsersUncaught(i) ==
    /\ sweep[i].pc = "getAllUsers"
    /\ \/ /\ UNCHANGED failures
          /\ resume(i, St([sweep[i] EXCEPT !.pc = "broadcast",
                                           !.allUsers = getAllUsers, !.i = 0],
                          lastCheckTimes, activeTwapOrders, twapObjects))
       \/ /\ fail(1)
          /\ resume(i, catchWallet(sweep[i], lastCheckTimes, activeTwapOrders,
                                   twapObjects))
    /\ UNCHANGED <<now, source, tracking, processed, cmd, runs, sent, idLog,
                   stakeLog, restarts, commands,
                   marketVars, storeLog, addVars>>

\* sendLargeStakingNotificationToAll: await db.getAllUsers() resolves, or
\* rejects into the function's own catch, after which the caller goes on
GetAllUsers(i) ==
    /\ sweep[i].pc = "getAllUsers"
    /\ \/ /\ UNCHANGED failures
          /\ IF 0 < Len(getAllUsers)
             THEN resume(i, St([sweep[i] EXCEPT !.pc = "broadcast",
                                                !.allUsers = getAllUsers, !.i = 0],
                            lastCheckTimes, activeTwapOrders, twapObjects))
             ELSE resume(i, userLoop(sweep[i], lastCheckTimes, activeTwapOrders,
                                     twapObjects))
       \/ /\ fail(1)
          /\ resume(i, userLoop(sweep[i], lastCheckTimes, activeTwapOrders, twapObjects))
    /\ UNCHANGED <<now, source, tracking, processed, cmd, runs, sent, idLog,
                   stakeLog, restarts, commands,
                   marketVars, storeLog, addVars>>

Min(a, b) == IF a < b THEN a ELSE b

\* allUsers.slice(i, i + batchSize)
slice(allUsers, i) == SubSeq(allUsers, i + 1, Min(i + batchSize, Len(allUsers)))

\* await Promise.all(batch.map(send)) resolves (after the one-second delay for
\* every batch but the first); each send of the batch resolves or rejects
Broadcast(i) ==
    /\ sweep[i].pc = "broadcast"
    /\ LET batch == slice(sweep[i].allUsers, sweep[i].i)
           more  == sweep[i].i + batchSize < Len(sweep[i].allUsers)
       IN \E rejected \in SUBSET Range(batch) :
           /\ fail(Cardinality(rejected))
           /\ sent' = sent (+) SetToBag({Message(sweep[i], u, "broadcast",
                                                 Head(sweep[i].batch), NoReport,
                                                 u \notin rejected)
                                         : u \in Range(batch)})
           /\ IF more
              THEN resume(i, St([sweep[i] EXCEPT !.i = @ + batchSize],
                             lastCheckTimes, activeTwapOrders, twapObjects))
              ELSE resume(i, userLoop([sweep[i] EXCEPT !.allUsers = <<>>, !.i = 0],
                                      lastCheckTimes, activeTwapOrders, twapObjects))
    /\ UNCHANGED <<now, source, tracking, processed, cmd, runs, idLog, stakeLog,
                   restarts, commands,
                   marketVars, storeLog, addVars>>

\* await bot.sendMessage(user.telegram_id, message) of lines 880-892 resolves or
\* rejects
SendMessage(i) ==
    /\ sweep[i].pc = "sendMessage"
    /\ \E ok \in BOOLEAN :
        LET todo == afterSend(sweep[i].todo, ok)
        IN /\ fail(IF ok THEN 0 ELSE 1)
           /\ sent' = sent (+) SetToBag({Message(sweep[i], Head(sweep[i].todo), "activity",
                                                 Head(sweep[i].batch), NoReport, ok)})
           /\ IF todo # <<>>
              THEN resume(i, St([sweep[i] EXCEPT !.todo = todo],
                             lastCheckTimes, activeTwapOrders, twapObjects))
              ELSE resume(i, nextActivity([sweep[i] EXCEPT !.todo = <<>>, !.batch = Tail(@)],
                                          lastCheckTimes, activeTwapOrders, twapObjects))
    /\ UNCHANGED <<now, source, tracking, processed, cmd, runs, idLog, stakeLog,
                   restarts, commands,
                   marketVars, storeLog, addVars>>

\* await bot.sendMessage of the TWAP start loop (lines 915-922)
TwapStartSend(i) ==
    /\ sweep[i].pc = "twapStart"
    /\ \E ok \in BOOLEAN :
        LET todo == afterSend(sweep[i].todo, ok)
        IN /\ fail(IF ok THEN 0 ELSE 1)
           /\ sent' = sent (+) SetToBag({Message(sweep[i], Head(sweep[i].todo), "twap_start",
                                                 sortedFills(sweep[i])[1],
                                                 startReport(sortedFills(sweep[i])[1]), ok)})
           /\ IF todo # <<>>
              THEN resume(i, St([sweep[i] EXCEPT !.todo = todo],
                             lastCheckTimes, activeTwapOrders, twapObjects))
              ELSE resume(i, updateTwap([sweep[i] EXCEPT !.todo = <<>>],
                                        lastCheckTimes, activeTwapOrders, twapObjects))
    /\ UNCHANGED <<now, source, tracking, processed, cmd, runs, idLog, stakeLog,
                   restarts, commands,
                   marketVars, storeLog, addVars>>

\* await bot.sendMessage of the TWAP completion/cancellation loop (lines
\* 933-942); after the last user, activeTwapOrders.delete(walletTwapKey)
TwapEndSend(i) ==
    /\ sweep[i].pc = "twapEnd"
    /\ \E ok \in BOOLEAN :
        LET todo     == afterSend(sweep[i].todo, ok)
            fills    == sortedFills(sweep[i])
            lastFill == fills[Len(fills)]
            key      == twapKey(sweep[i])
        IN /\ fail(IF ok THEN 0 ELSE 1)
           /\ sent' = sent (+) SetToBag({Message(sweep[i], Head(sweep[i].todo),
                                                 IF lastFill.isTwapCancelled
                                                 THEN "twap_cancel" ELSE "twap_complete",
                                                 lastFill,
                                                 endReport(lastFill,
                                                     twapObjects[sweep[i].twapStatus]),
                                                 ok)})
           /\ IF todo # <<>>
              THEN resume(i, St([sweep[i] EXCEPT !.todo = todo],
                             lastCheckTimes, activeTwapOrders, twapObjects))
              ELSE resume(i, processTwap(
                       [sweep[i] EXCEPT !.todo = <<>>, !.twapStatus = 0, !.groups = Tail(@)],
                       lastCheckTimes,
                       delete(activeTwapOrders, key),
                       twapObjects))
    /\ UNCHANGED <<now, source, tracking, processed, cmd, runs, idLog, stakeLog,
                   restarts, commands,
                   marketVars, storeLog, addVars>>

\* ------------------------------------------------------------ environment
\* the clock goes on by `step` milliseconds, up to `limit`
AdvanceBy(step, limit) ==
    /\ now + step <= limit
    /\ now' = now + step
    /\ UNCHANGED <<source, tracking, processed, lastCheckTimes, activeTwapOrders,
                   twapObjects, sweep, cmd, runs, sent, idLog, stakeLog, failures,
                   restarts, commands,
                   marketVars, storeLog, addVars>>

\* a look-back period passes
Advance == AdvanceBy(DefaultLookback, MaxTime * DefaultLookback)

publishUpTo(activity, limit) ==
    /\ Cardinality(source) < limit
    /\ activity \notin source
    /\ activity.user \in {t[2] : t \in tracking}
    /\ source' = source \cup {activity}
    /\ UNCHANGED <<now, tracking, processed, lastCheckTimes, activeTwapOrders,
                   twapObjects, sweep, cmd, runs, sent, idLog, stakeLog, failures,
                   restarts, commands,
                   marketVars, storeLog, addVars>>

publish(activity) == publishUpTo(activity, MaxPublished)

\* the venue reports a fill (it carries oid, tid and hash)
PublishFill == \E w \in Wallets :
    publish(Activity("fill", w, now, 7, 3, "0xf", 0, 0, 0, FALSE, FALSE, 10, 0))

\* the venue reports an order event none of whose oid, tid and hash is set at
\* the top level: the case the Math.random() fallback of activityId is for
PublishOrder == \E w \in Wallets :
    publish(Activity("order", w, now, 0, 0, "", 0, 0, 0, FALSE, FALSE, 10, 0))

\* the venue reports a staking event, at or just above the alert threshold;
\* the entry carries the amount inside delta, and may or may not repeat it in
\* a top-level field
PublishStaking == \E w \in Wallets, delta \in {LargeStake, LargeStake + 1} :
    \E amount \in {0, delta} :
        publish(Activity("staking_activity", w, now, 0, 0, "0xs", amount, delta,
                         0, FALSE, FALSE, 0, 0))

\* the venue reports a slice of TWAP order 1
PublishTwap == \E w \in Wallets, done \in BOOLEAN, cancelled \in BOOLEAN :
    /\ ~(done /\ cancelled)
    /\ publish(Activity("twap_fill", w, now, 7, 3, "0xf", 0, 0, 1, done, cancelled, 10, 0))

\* a restart of a process that keeps the live map of TWAP orders in a file
\* and reads it back; C24 does not hold of it
RestartKeepsMap ==
    /\ restarts < MaxRestarts
    /\ restarts' = restarts + 1
    /\ lastCheckTimes' = [w \in Wallets |-> 0]
    /\ activeTwapOrders' = activeTwapOrders
    /\ twapObjects' = collect(twapObjects, activeTwapOrders, [i \in Slots |-> Idle])
    /\ sweep' = [i \in Slots |-> Idle]
    /\ cmd' = [pc |-> "idle", user |-> "", wallet |-> ""]
    /\ cachedMarkets' = NoMarkets
    /\ lastMarketUpdate' = 0
    /\ marketCheck' = NoCheck
    /\ UNCHANGED <<now, source, tracking, processed, runs, sent, idLog, stakeLog,
                   failures, commands, universe, marketLog, storeLog, addVars>>

\* the process exits and is started again: the two Maps and the market
\* snapshot are empty, the database and the venue keep their contents
Restart ==
    /\ restarts < MaxRestarts
    /\ restarts' = restarts + 1
    /\ lastCheckTimes' = [w \in Wallets |-> 0]
    /\ activeTwapOrders' = <<>>
    /\ twapObjects' = <<>>
    /\ sweep' = [i \in Slots |-> Idle]
    /\ cmd' = [pc |-> "idle", user |-> "", wallet |-> ""]
    /\ cachedMarkets' = NoMarkets
    /\ lastMarketUpdate' = 0
    /\ marketCheck' = NoCheck
    /\ UNCHANGED <<now, source, tracking, processed, runs, sent, idLog, stakeLog,
                   failures, commands, universe, marketLog, storeLog, addVars>>

\* /remove <address> of a wallet somebody tracks: await db.removeTrackedWallet
\* resolves (UPDATE ... SET is_active = 0; `removed` is this.changes > 0, and
\* the UPDATE changes the user's row whether or not it is still active) or
\* rejects
RemoveCommand(limit) ==
    /\ cmd.pc = "idle"
    /\ commands < limit
    /\ commands' = commands + 1
    /\ \E u \in Users, w \in {t[2] : t \in tracking} :
        \/ /\ UNCHANGED failures
           /\ tracking' = tracking \ {<<u, w>>}
           /\ untracked' = IF <<u, w>> \in tracking THEN untracked \cup {<<u, w>>}
                           ELSE untracked
           /\ cmd' = [pc |-> IF <<u, w>> \in tracking \cup untracked
                             THEN "removed" ELSE "notFound",
                      user |-> u, wallet |-> w]
        \/ /\ fail(1)
           /\ UNCHANGED <<tracking, untracked>>
           /\ cmd' = [pc |-> "idle", user |-> "", wallet |-> ""]
    /\ UNCHANGED <<now, source, processed, lastCheckTimes, activeTwapOrders,
                   twapObjects, sweep, runs, sent, idLog, stakeLog, restarts,
                   marketVars, storeLog, adds>>

Remove == RemoveCommand(MaxCommands)

\* the reply of /remove is sent: await bot.sendMessage resolves, and
\* lastCheckTimes.delete(walletAddress) follows the success reply; a rejected
\* send jumps to the handler's catch
RemoveReply ==
    /\ cmd.pc \in {"removed", "notFound"}
    /\ cmd' = [pc |-> "idle", user |-> "", wallet |-> ""]
    /\ \/ /\ UNCHANGED failures
          /\ lastCheckTimes' = IF cmd.pc = "removed"
                               THEN [lastCheckTimes EXCEPT ![cmd.wallet] = 0]
                               ELSE lastCheckTimes
       \/ /\ fail(1)
          /\ UNCHANGED lastCheckTimes
    /\ UNCHANGED <<now, source, tracking, processed, activeTwapOrders, twapObjects,
                   sweep, runs, sent, idLog, stakeLog, restarts, commands,
                   marketVars, storeLog, addVars>>

\* --------------------------------------------------------- specification
InitWith(subscriptions) ==
    /\ now = 2 * DefaultLookback
    /\ source = {}
    /\ tracking \in subscriptions
    /\ processed = {}
    /\ lastCheckTimes = [w \in Wallets |-> 0]
    /\ activeTwapOrders = <<>>
    /\ twapObjects = <<>>
    /\ sweep = [i \in Slots |-> Idle]
    /\ cmd = [pc |-> "idle", user |-> "", wallet |-> ""]
    /\ runs = 0
    /\ sent = EmptyBag
    /\ idLog = {}
    /\ stakeLog = {}
    /\ failures = 0
    /\ restarts = 0
    /\ commands = 0
    /\ InitMarkets
    /\ storeLog = NoCall
    /\ untracked = {}
    /\ adds = [slot \in AddSlots |-> NoAdd]

Init == InitWith({InitialTracking})

FetchStep(i) ==
    \/ GetAllTrackedWallets(i)
    \/ GetRecentActivity(i)
    \/ GetUsersTrackingWallet(i)

DedupStep(i) ==
    \/ IsOrderProcessed(i)
    \/ MarkOrderProcessed(i)
    \/ SendMessage(i)

StakeStep(i) ==
    \/ GetAllUsers(i)
    \/ Broadcast(i)

TwapStep(i) ==
    \/ TwapStartSend(i)
    \/ TwapEndSend(i)

Step(i) == FetchStep(i) \/ DedupStep(i) \/ StakeStep(i) \/ TwapStep(i)

\* The program with its whole environment: cron ticks that do not wait for
\* the sweep in flight, the venue, the clock, /remove and restarts.
Next ==
    \/ Tick
    \/ \E i \in Slots : Step(i)
    \/ Advance
    \/ PublishFill
    \/ PublishOrder
    \/ PublishStaking
    \/ PublishTwap
    \/ Restart
    \/ Remove
    \/ RemoveReply

Spec == Init /\ [][Next]_vars

\* a cron tick that finds the previous sweep returned (every sweep is shorter
\* than the polling interval)
TickSeq ==
    /\ \A j \in Slots : sweep[j].pc = "idle"
    /\ Tick

\* Sweeps that never overlap, all four kinds of activity, no restart.
NextSeq ==
    \/ TickSeq
    \/ \E i \in Slots : Step(i)
    \/ Advance
    \/ PublishFill
    \/ PublishOrder
    \/ PublishStaking
    \/ PublishTwap

SpecSeq == Init /\ [][NextSeq]_vars

\* Sweeps that never overlap, and restarts between them: the same batch is
\* fetched again after a restart.
NextRestart ==
    \/ TickSeq
    \/ \E i \in Slots : FetchStep(i) \/ DedupStep(i)
    \/ Advance
    \/ PublishFill
    \/ PublishOrder
    \/ Restart

SpecRestart == Init /\ [][NextRestart]_vars

\* One subscriber tracking two wallets, sweeps that never overlap.
NextWallets ==
    \/ TickSeq
    \/ \E i \in Slots : FetchStep(i) \/ DedupStep(i)
    \/ Advance
    \/ PublishFill
    \/ PublishOrder

SpecWallets == InitWith({{<<"u1", "w1">>, <<"u1", "w2">>}}) /\ [][NextWallets]_vars

\* ------------------------------------------------------- one TWAP order
\* the slices of TWAP order 1 the venue has reported
Slices == {a \in source : a.type = "twap_fill" /\ a.twapId = 1}

IsTerminal(a) == a.isTwapDone \/ a.isTwapCancelled

\* milliseconds between two slices
SliceGap == 100

\* the next slice of the order, of size 10 and with closedPnl 5 when it
\* carries the done flag
slice_(w, done, cancelled) ==
    Activity("twap_fill", w, now, 7, Cardinality(Slices) + 1, "0xf", 0, 0, 1,
             done, cancelled, 10, IF done THEN 5 ELSE 0)

\* The venue reports the next slice of TWAP order 1 of a tracked wallet.  It
\* is later than the slices before it; any slice may carry the done flag, the
\* cancelled flag or both, whatever the slices before it carried.
PublishSlice == \E w \in {t[2] : t \in tracking}, done \in BOOLEAN, cancelled \in BOOLEAN :
    /\ Cardinality(Slices) < MaxSlices
    /\ \A a \in Slices : a.user = w /\ a.time < now
    /\ source' = source \cup {slice_(w, done, cancelled)}
    /\ UNCHANGED <<now, tracking, processed, lastCheckTimes, activeTwapOrders,
                   twapObjects, sweep, cmd, runs, sent, idLog, stakeLog, failures,
                   restarts, commands,
                   marketVars, storeLog, addVars>>

\* the time of the last slice the venue can report
LastSliceTime == 2 * DefaultLookback + (MaxSlices - 1) * SliceGap

AdvanceGap == AdvanceBy(SliceGap, LastSliceTime)

\* a cron tick that finds the previous sweep returned
TickTwap ==
    /\ \A j \in Slots : sweep[j].pc = "idle"
    /\ StartSweep(MaxSweeps)

\* Sweeps that never overlap over the slices of one TWAP order of a wallet
\* with one subscriber, in batches of one or more slices.
NextTwap ==
    \/ TickSeq
    \/ \E i \in Slots : FetchStep(i) \/ TwapStep(i)
    \/ AdvanceGap
    \/ PublishSlice

SpecTwap == InitWith({{<<"u1", "w1">>}}) /\ [][NextTwap]_vars

\* the number of slices of the scenario
ScenarioSlices == 3

\* The scenario of a TWAP order in three slices, the third one done: the
\* venue reports each slice between two sweeps and after the last checkpoint,
\* so that every slice is in the batch of exactly one sweep.
PublishScenarioSlice ==
    /\ \A j \in Slots : sweep[j].pc = "idle"
    /\ lastCheckTimes["w1"] < now
    /\ Cardinality(Slices) < ScenarioSlices
    /\ \A a \in Slices : a.time < now
    /\ source' = source \cup {slice_("w1", Cardinality(Slices) = ScenarioSlices - 1, FALSE)}
    /\ UNCHANGED <<now, tracking, processed, lastCheckTimes, activeTwapOrders,
                   twapObjects, sweep, cmd, runs, sent, idLog, stakeLog, failures,
                   restarts, commands,
                   marketVars, storeLog, addVars>>

NextScenario ==
    \/ TickTwap
    \/ \E i \in Slots : FetchStep(i) \/ TwapStep(i)
    \/ AdvanceGap
    \/ PublishScenarioSlice

\* no call fails in the scenario
InitScenario ==
    /\ now = 2 * DefaultLookback
    /\ source = {}
    /\ tracking = InitialTracking
    /\ processed = {}
    /\ lastCheckTimes = [w \in Wallets |-> 0]
    /\ activeTwapOrders = <<>>
    /\ twapObjects = <<>>
    /\ sweep = [i \in Slots |-> Idle]
    /\ cmd = [pc |-> "idle", user |-> "", wallet |-> ""]
    /\ runs = 0
    /\ sent = EmptyBag
    /\ idLog = {}
    /\ stakeLog = {}
    /\ failures = MaxFailures
    /\ restarts = 0
    /\ commands = 0
    /\ InitMarkets
    /\ storeLog = NoCall
    /\ untracked = {}
    /\ adds = [slot \in AddSlots |-> NoAdd]

SpecScenario == InitScenario /\ [][NextScenario]_vars

\* ------------------------------------------------------- getNewMarkets
\* the 5 minutes of `currentTime - this._lastMarketUpdate < 300000`
CacheWindow == 300000

\* the cron job '*/5 * * * *' calls checkForNewMarkets every 5 minutes, a
\* millisecond early or a millisecond late
CronJitter == 1

MaxMarketChecks == 3
MaxListings == 2

\* the instruments the venue may list later
Listings == [perps |-> <<Asset("ETH", 4), Asset("BTC", 4)>>,
             spots |-> <<Asset("@1", 2), Asset("PURR/USDC", 2)>>]

\* a filter that returns the current universe whole; C17 does not hold of it
newAssetsAll(current, cached) == current

\* a filter that finds nothing new; C37 does not hold of it
newAssetsNone(current, cached) == <<>>

\* universe.filter(asset => !oldAssets.has(asset.name)) with
\* oldAssets = new Set(cached.map(asset => asset.name))
RECURSIVE newAssets(_, _)
newAssets(current, cached) ==
    IF current = <<>> THEN <<>>
    ELSE (IF Head(current).name \in {cached[n].name : n \in DOMAIN cached}
          THEN <<>> ELSE <<Head(current)>>)
         \o newAssets(Tail(current), cached)

\* what one getNewMarkets invocation found and returned.  total, nth: its
\* number among all invocations and among those of its process start; venue:
\* the universe when it was called; cached, update: _cachedMarkets and
\* _lastMarketUpdate when it was called, cachedAfter, updateAfter: when it
\* returned; fetched: the two universes it read, if it read both
Returned(check, path, fetched, newPerps, newSpots, cachedAfter, updateAfter) ==
    [total |-> marketLog.total + 1,
     nth |-> IF marketLog.total > 0 /\ marketLog.start = restarts
             THEN marketLog.nth + 1 ELSE 1,
     start |-> restarts, currentTime |-> check.currentTime, venue |-> check.venue,
     cached |-> cachedMarkets, update |-> lastMarketUpdate, path |-> path,
     fetched |-> fetched, newPerps |-> newPerps, newSpots |-> newSpots,
     cachedAfter |-> cachedAfter, updateAfter |-> updateAfter]

\* cron fires, checkForNewMarkets calls hlAPI.getNewMarkets: lines 468-475 up
\* to await this.getMeta()
TickMarkets == \E late \in {0 - CronJitter, CronJitter} :
    LET check == [NoCheck EXCEPT !.currentTime = now + CacheWindow + late,
                                 !.venue = universe]
    IN /\ marketCheck.pc = "idle"
       /\ marketLog.total < MaxMarketChecks
       /\ now' = check.currentTime
       /\ IF lastMarketUpdate # 0 /\ check.currentTime - lastMarketUpdate < CacheWindow
          THEN /\ marketLog' = Returned(check, "cache", NoReturn.fetched, <<>>, <<>>,
                                         cachedMarkets, lastMarketUpdate)
               /\ UNCHANGED marketCheck
          ELSE /\ marketCheck' = [check EXCEPT !.pc = "getMeta"]
               /\ UNCHANGED marketLog
       /\ UNCHANGED <<source, tracking, processed, lastCheckTimes, activeTwapOrders,
                      twapObjects, sweep, cmd, runs, sent, idLog, stakeLog, failures,
                      restarts, commands, universe, cachedMarkets, lastMarketUpdate, storeLog, addVars>>

\* await this.getMeta() resolves, with the response or with null
GetMeta ==
    /\ marketCheck.pc = "getMeta"
    /\ \/ /\ UNCHANGED failures
          /\ marketCheck' = [marketCheck EXCEPT !.pc = "getSpotMeta",
                                 !.currentMeta = [ok |-> TRUE, universe |-> universe.perps]]
       \/ /\ fail(1)
          /\ marketCheck' = [marketCheck EXCEPT !.pc = "getSpotMeta"]
    /\ UNCHANGED <<now, source, tracking, processed, lastCheckTimes, activeTwapOrders,
                   twapObjects, sweep, cmd, runs, sent, idLog, stakeLog,
                   restarts, commands, universe, cachedMarkets, lastMarketUpdate,
                   marketLog, storeLog, addVars>>

\* await this.getSpotMeta() resolves, with the response or with null, and
\* lines 478-503: currentMeta.universe or currentSpotMeta.universe of null
\* throws, and the catch returns two empty lists
GetSpotMeta == \E spotOk \in BOOLEAN :
    LET currentMeta == marketCheck.currentMeta
        fetched  == [perps |-> currentMeta.universe, spots |-> universe.spots]
        snapshot == [held |-> TRUE, perps |-> fetched.perps, spots |-> fetched.spots]
        held     == cachedMarkets.held
        newPerps == IF held THEN newAssets(currentMeta.universe, cachedMarkets.perps)
                    ELSE <<>>
        newSpots == IF held THEN newAssets(universe.spots, cachedMarkets.spots)
                    ELSE <<>>
    IN /\ marketCheck.pc = "getSpotMeta"
       /\ IF spotOk THEN UNCHANGED failures ELSE fail(1)
       /\ IF currentMeta.ok /\ spotOk
          THEN /\ cachedMarkets' = snapshot
               /\ lastMarketUpdate' = marketCheck.currentTime
               /\ marketLog' = Returned(marketCheck, "try", fetched, newPerps, newSpots,
                                        snapshot, marketCheck.currentTime)
          ELSE /\ UNCHANGED <<cachedMarkets, lastMarketUpdate>>
               /\ marketLog' = Returned(marketCheck, "catch", NoReturn.fetched, <<>>, <<>>,
                                        cachedMarkets, lastMarketUpdate)
       /\ marketCheck' = NoCheck
       /\ UNCHANGED <<now, source, tracking, processed, lastCheckTimes, activeTwapOrders,
                      twapObjects, sweep, cmd, runs, sent, idLog, stakeLog,
                      restarts, commands, universe, storeLog, addVars>>

\* the venue lists the next instrument of a pool: one of a new name, then
\* one under a name it already uses
ListMarket == \E pool \in {"perps", "spots"} :
    /\ Len(universe.perps) + Len(universe.spots) < 2 + MaxListings
    /\ Len(universe[pool]) <= Len(Listings[pool])
    /\ universe' = [universe EXCEPT ![pool] = Append(@, Listings[pool][Len(@)])]
    /\ UNCHANGED <<now, source, tracking, processed, lastCheckTimes, activeTwapOrders,
                   twapObjects, sweep, cmd, runs, sent, idLog, stakeLog, failures,
                   restarts, commands, cachedMarkets, lastMarketUpdate, marketCheck,
                   marketLog, storeLog, addVars>>

NextMarkets ==
    \/ TickMarkets
    \/ GetMeta
    \/ GetSpotMeta
    \/ ListMarket
    \/ Restart

SpecMarkets == Init /\ [][NextMarkets]_vars

\* ------------------------------------------- the processed-event store
MaxStoreCalls == 4

\* order ids as checkForNewOrders builds them
OrderIds == {"120000_7", "120000_0.25", "120100_7"}

\* a call of the store: the store before it, what it resolved to (true for
\* markOrderProcessed, which resolves to this.lastID) and the keys that
\* markOrderProcessed was called with so far
Called(call, walletAddress, orderId, result) ==
    [calls |-> storeLog.calls + 1, call |-> call, wallet |-> walletAddress,
     order_id |-> orderId, before |-> processed, result |-> result,
     marked |-> IF call = "markOrderProcessed"
                THEN storeLog.marked \cup {<<walletAddress, orderId>>}
                ELSE storeLog.marked]

\* await db.markOrderProcessed(walletAddress, orderId) resolves
MarkCall == \E walletAddress \in Wallets, orderId \in OrderIds :
    /\ storeLog.calls < MaxStoreCalls
    /\ processed' = markOrderProcessed(processed, walletAddress, orderId)
    /\ storeLog' = Called("markOrderProcessed", walletAddress, orderId, TRUE)
    /\ UNCHANGED <<now, source, tracking, lastCheckTimes, activeTwapOrders,
                   twapObjects, sweep, cmd, runs, sent, idLog, stakeLog, failures,
                   restarts, commands, marketVars, addVars>>

\* await db.isOrderProcessed(walletAddress, orderId) resolves
IsProcessedCall == \E walletAddress \in Wallets, orderId \in OrderIds :
    /\ storeLog.calls < MaxStoreCalls
    /\ storeLog' = Called("isOrderProcessed", walletAddress, orderId,
                          isOrderProcessed(walletAddress, orderId))
    /\ UNCHANGED <<now, source, tracking, processed, lastCheckTimes, activeTwapOrders,
                   twapObjects, sweep, cmd, runs, sent, idLog, stakeLog, failures,
                   restarts, commands, marketVars, addVars>>

NextStore == MarkCall \/ IsProcessedCall

SpecStore == Init /\ [][NextStore]_vars

\* ------------------------------------------------------------------ /add
\* config.MAX_TRACKED_WALLETS_PER_USER (default 5), set to a value that two
\* wallets can exceed
MAX_TRACKED_WALLETS_PER_USER == 1

\* the /add commands that arrive
MaxAddCommands == 3

\* an argument of /add that is not 0x and 40 hex digits
InvalidAddresses == {"0x12"}

\* hlAPI.isValidAddress: /^0x[a-fA-F0-9]{40}$/ (w1, w2 stand for addresses of
\* that form)
isValidAddress(address) == address \in Wallets

\* SELECT COUNT(*) ... WHERE user_id = ? AND is_active = 1
activeWallets(user) == Cardinality({t \in tracking : t[1] = user})

\* a catch block that forgets the wallet's checkpoint; C20 does not hold of it
catchAddDelete(lct, walletAddress) ==
    IF walletAddress \in Wallets THEN [lct EXCEPT ![walletAddress] = 0] ELSE lct

\* the catch block of the /add handler: lastCheckTimes as it is
catchAdd(lct, walletAddress) == lct

\* the subscriptions and lastCheckTimes
Subscriptions == [tracking |-> tracking, untracked |-> untracked,
                  lastCheckTimes |-> lastCheckTimes]

\* bot.onText(/add): a command of user u arrives in a free slot; an invalid
\* address is answered at once, else await db.addUser
AddCommand(slot, alone) == \E u \in Users, walletAddress \in Wallets \cup InvalidAddresses :
    /\ adds[slot].pc = "idle"
    /\ \A j \in AddSlots : j < slot => adds[j].pc # "idle"
    /\ alone => cmd.pc = "idle" /\ \A j \in AddSlots : adds[j].pc = "idle"
    /\ commands < MaxAddCommands
    /\ commands' = commands + 1
    /\ adds' = [adds EXCEPT ![slot] =
                  [pc |-> IF isValidAddress(walletAddress) THEN "addUser" ELSE "reject",
                   user |-> u, wallet |-> walletAddress, n |-> commands + 1,
                   outcome |-> IF isValidAddress(walletAddress) THEN "none" ELSE "invalid",
                   seen |-> Subscriptions]]
    /\ UNCHANGED <<now, source, tracking, processed, lastCheckTimes, activeTwapOrders,
                   twapObjects, sweep, cmd, runs, sent, idLog, stakeLog, failures,
                   restarts, marketVars, storeLog, untracked>>

\* await db.addUser resolves (INSERT OR IGNORE: the user has a row) or
\* rejects; then db.addTrackedWallet issues SELECT id FROM users
AddUser(slot) ==
    /\ adds[slot].pc = "addUser"
    /\ \/ /\ UNCHANGED failures
          /\ adds' = [adds EXCEPT ![slot].pc = "selectUser"]
       \/ /\ fail(1)
          /\ adds' = [adds EXCEPT ![slot].pc = "reject", ![slot].outcome = "error"]
    /\ UNCHANGED <<now, source, tracking, processed, lastCheckTimes, activeTwapOrders,
                   twapObjects, sweep, cmd, runs, sent, idLog, stakeLog,
                   restarts, commands, marketVars, storeLog, untracked>>

\* the callback of SELECT id FROM users: the row is there, SELECT COUNT(*) is
\* issued
SelectUser(slot) ==
    /\ adds[slot].pc = "selectUser"
    /\ adds' = [adds EXCEPT ![slot].pc = "count"]
    /\ UNCHANGED <<now, source, tracking, processed, lastCheckTimes, activeTwapOrders,
                   twapObjects, sweep, cmd, runs, sent, idLog, stakeLog, failures,
                   restarts, commands, marketVars, storeLog, untracked>>

\* the callback of SELECT COUNT(*): at the maximum the promise is rejected
\* ('Maximum N wallets allowed per user'), else INSERT OR REPLACE is issued
CountWallets(slot) ==
    /\ adds[slot].pc = "count"
    /\ adds' = IF activeWallets(adds[slot].user) >= MAX_TRACKED_WALLETS_PER_USER
               THEN [adds EXCEPT ![slot].pc = "reject", ![slot].outcome = "maximum"]
               ELSE [adds EXCEPT ![slot].pc = "insert"]
    /\ UNCHANGED <<now, source, tracking, processed, lastCheckTimes, activeTwapOrders,
                   twapObjects, sweep, cmd, runs, sent, idLog, stakeLog, failures,
                   restarts, commands, marketVars, storeLog, untracked>>

\* INSERT OR REPLACE INTO tracked_wallets runs: the row of (user, wallet) is
\* replaced by a new one, which is active; the success reply is sent
InsertWallet(slot) ==
    LET row == <<adds[slot].user, adds[slot].wallet>>
    IN /\ adds[slot].pc = "insert"
       /\ tracking' = tracking \cup {row}
       /\ untracked' = untracked \ {row}
       /\ adds' = [adds EXCEPT ![slot].pc = "reply"]
       /\ UNCHANGED <<now, source, processed, lastCheckTimes, activeTwapOrders,
                      twapObjects, sweep, cmd, runs, sent, idLog, stakeLog, failures,
                      restarts, commands, marketVars, storeLog>>

\* await bot.sendMessage of the success reply resolves, and
\* lastCheckTimes.set(walletAddress, Date.now()) follows; or it rejects and
\* the catch block replies
AddReply(slot) ==
    /\ adds[slot].pc = "reply"
    /\ \/ /\ UNCHANGED failures
          /\ lastCheckTimes' = [lastCheckTimes EXCEPT ![adds[slot].wallet] = now]
          /\ adds' = [adds EXCEPT ![slot].pc = "idle", ![slot].outcome = "added"]
       \/ /\ fail(1)
          /\ lastCheckTimes' = catchAdd(lastCheckTimes, adds[slot].wallet)
          /\ adds' = [adds EXCEPT ![slot].pc = "reject", ![slot].outcome = "error"]
    /\ UNCHANGED <<now, source, tracking, processed, activeTwapOrders,
                   twapObjects, sweep, cmd, runs, sent, idLog, stakeLog,
                   restarts, commands, marketVars, storeLog, untracked>>

\* the reply to an invalid address, or the reply of the catch block
RejectReply(slot) ==
    /\ adds[slot].pc = "reject"
    /\ lastCheckTimes' = catchAdd(lastCheckTimes, adds[slot].wallet)
    /\ adds' = [adds EXCEPT ![slot].pc = "idle"]
    /\ UNCHANGED <<now, source, tracking, processed, activeTwapOrders,
                   twapObjects, sweep, cmd, runs, sent, idLog, stakeLog, failures,
                   restarts, commands, marketVars, storeLog, untracked>>

AddStep(slot) ==
    \/ AddUser(slot)
    \/ SelectUser(slot)
    \/ CountWallets(slot)
    \/ InsertWallet(slot)
    \/ AddReply(slot)
    \/ RejectReply(slot)

\* /add and /remove commands that arrive whenever they do: the handlers
\* interleave at their awaits and callbacks
NextAdd ==
    \/ \E slot \in AddSlots : AddCommand(slot, FALSE)
    \/ \E slot \in AddSlots : AddStep(slot)
    \/ RemoveCommand(MaxAddCommands)
    \/ RemoveReply
    \/ Advance

SpecAdd == InitWith({{<<"u1", "w1">>}}) /\ [][NextAdd]_vars

\* a command arrives when no handler is in flight
RemoveAlone ==
    /\ \A j \in AddSlots : adds[j].pc = "idle"
    /\ RemoveCommand(MaxAddCommands)

\* /add and /remove commands one after the other
NextAddSeq ==
    \/ \E slot \in AddSlots : AddCommand(slot, TRUE)
    \/ \E slot \in AddSlots : AddStep(slot)
    \/ RemoveAlone
    \/ RemoveReply
    \/ Advance

SpecAddSeq == InitWith({{<<"u1", "w1">>}}) /\ [][NextAddSeq]_vars

\* ------------------------------------------------------------ the claims
\* the number of sendMessage calls in `bag` that are in the set S
RECURSIVE Copies(_, _)
Copies(bag, S) ==
    IF S = {} THEN 0
    ELSE LET m == CHOOSE x \in S : TRUE
         IN (IF m \in BagToSet(bag) THEN CopiesIn(m, bag) ELSE 0) + Copies(bag, S \ {m})

Messages == BagToSet(sent)

\* the notifications of activity a that reached subscriber u
Delivered(a, u, kinds) ==
    {m \in Messages : m.activity = a /\ m.to = u /\ m.kind \in kinds /\ m.ok}

NonSliced == {a \in source : a.type # "twap_fill"}

\* C1: however often the pipeline runs on a batch, each subscriber gets at
\* most one notification for each non-sliced activity of the batch.
C1_Idempotent ==
    \A a \in NonSliced, u \in Users : Copies(sent, Delivered(a, u, {"activity"})) <= 1

\* C2: whenever a notification of a non-sliced activity (per-subscriber or
\* large-stake broadcast) has been sent, the record (wallet, activityId) it
\* was sent under is in the processed-event store.
C2_MarkedBeforeSent ==
    \A m \in Messages :
        m.kind \in {"activity", "broadcast"} => <<m.wallet, m.activityId>> \in Keys(processed)

\* a large stake was broadcast and then notified to a subscriber
C2_Witness ==
    /\ \E m \in Messages : m.kind = "broadcast" /\ m.ok
    /\ \E m \in Messages : m.kind = "activity" /\ m.ok

\* no sweep is working on wallet w
Quiescent(w) ==
    \A i \in Slots : sweep[i].pc = "idle" \/ (sweep[i].wallets # <<>> /\ w \notin Range(sweep[i].wallets))

\* activity a can never be fetched again: every since-time from now on is at
\* least its timestamp
OutOfReach(a) ==
    /\ lastCheckTimes[a.user] # 0
    /\ lastCheckTimes[a.user] >= a.time
    /\ now - DefaultLookback >= a.time
    /\ Quiescent(a.user)

\* C3: no published activity of a tracked wallet is missed (out of reach
\* without a send to each subscriber) and none is notified twice to the same
\* subscriber.
C3_NeverMissedNeverTwice ==
    \A a \in NonSliced, u \in Users :
        /\ Copies(sent, Delivered(a, u, {"activity"})) <= 1
        /\ (<<u, a.user>> \in tracking /\ OutOfReach(a))
               => \E m \in Messages : m.activity = a /\ m.to = u /\ m.kind = "activity"

\* the sendMessage calls of one kind for the slices of TWAP order id of wallet w
TwapCalls(w, id, u, kinds) ==
    {m \in Messages : m.wallet = w /\ m.to = u /\ m.kind \in kinds
                      /\ m.activity.type = "twap_fill" /\ m.activity.twapId = id}

\* C4: for each TWAP order and subscriber there is never more than one
\* "started" notification and never more than one terminal notification
\* (completed or cancelled).
C4_OneStartOneEnd ==
    \A w \in Wallets, u \in Users :
        LET started == Copies(sent, TwapCalls(w, 1, u, {"twap_start"}))
            ended   == Copies(sent, TwapCalls(w, 1, u, {"twap_complete", "twap_cancel"}))
        IN started <= 1 /\ ended <= 1

\* C5: the dedup key of an activity is the same every time it is computed.
C5_DeterministicId ==
    \A p \in idLog, q \in idLog : p[1] = q[1] => p[2] = q[2]

\* the sweeps that are processing wallet w
InFlight(w) ==
    {i \in Slots : sweep[i].pc \notin {"idle", "getAllTrackedWallets"} /\ walletOf(sweep[i]) = w}

\* C6: at most one sweep is processing a wallet at any time.
C6_NoOverlap == \A w \in Wallets : Cardinality(InFlight(w)) <= 1

\* sweep i leaves the wallet it was processing in this step
LeavesWallet(i) ==
    /\ sweep[i].pc \notin {"idle", "getAllTrackedWallets"}
    /\ sweep'[i].wallets # sweep[i].wallets
    /\ restarts' = restarts

\* C7: whenever a sweep has finished its attempt on a wallet, with or without
\* a failure, lastCheckTimes of the wallet is the current time.
C7_CheckpointAlways ==
    [][\A i \in Slots : LeavesWallet(i) => lastCheckTimes'[walletOf(sweep[i])] = now]_vars

\* C8: a sweep goes from each wallet of its list to the next one, whatever
\* failed, and ends only after the last wallet.
C8_FailureIsolated ==
    [][\A i \in Slots : LeavesWallet(i) =>
          IF Len(sweep[i].wallets) > 1
          THEN /\ sweep'[i].pc = "getRecentActivity"
               /\ sweep'[i].wallets = Tail(sweep[i].wallets)
          ELSE sweep'[i] = Idle]_vars

\* the first wallet failed without a checkpoint and the sweep is on the second
C8_Witness ==
    \E i \in Slots :
        /\ sweep[i].pc = "getRecentActivity"
        /\ sweep[i].wallets = <<"w2">>
        /\ lastCheckTimes["w1"] = 0
        /\ failures > 0

SendLoops == {"sendMessage", "twapStart", "twapEnd"}

\* the kinds of message a send loop sends
LoopKinds(pc) ==
    IF pc = "sendMessage" THEN {"activity"}
    ELSE IF pc = "twapStart" THEN {"twap_start"}
    ELSE {"twap_complete", "twap_cancel"}

\* the activity a send loop is notifying
LoopActivity(s) ==
    IF s.pc = "sendMessage" THEN Head(s.batch)
    ELSE IF s.pc = "twapStart" THEN sortedFills(s)[1]
    ELSE sortedFills(s)[Len(sortedFills(s))]

\* sweep i takes the last step of the send loop it is in
LeavesLoop(i) ==
    /\ sweep[i].pc \in SendLoops
    /\ sweep'[i] # sweep[i]
    /\ restarts' = restarts
    /\ ~(/\ sweep'[i].pc = sweep[i].pc
         /\ sweep'[i].batch = sweep[i].batch
         /\ sweep'[i].groups = sweep[i].groups
         /\ sweep'[i].wallets = sweep[i].wallets)

\* C9: when a send loop ends, every subscriber of the wallet has had exactly
\* one send attempt for the activity, whether or not other sends failed, and
\* the record of a non-sliced activity is still in the store.
C9_SendFailureIsolated ==
    [][\A i \in Slots : LeavesLoop(i) =>
          /\ \A u \in Range(sweep[i].usersTracking) :
                Copies(sent', {m \in BagToSet(sent') :
                                  /\ m.run = sweep[i].run
                                  /\ m.to = u
                                  /\ m.activity = LoopActivity(sweep[i])
                                  /\ m.kind \in LoopKinds(sweep[i].pc)}) = 1
          /\ sweep[i].pc = "sendMessage" =>
                <<walletOf(sweep[i]), sweep[i].activityId>> \in Keys(processed')]_vars

\* the send to the first subscriber failed and the second one was sent to
C9_Witness ==
    \E m1 \in Messages, m2 \in Messages :
        /\ m1.run = m2.run /\ m1.activity = m2.activity
        /\ m1.kind = "activity" /\ m2.kind = "activity"
        /\ m1.to = "u1" /\ ~m1.ok
        /\ m2.to = "u2" /\ m2.ok
        /\ <<m1.wallet, m1.activityId>> \in Keys(processed)

\* C10: a staking event that is processed leads to the large-stake broadcast
\* if and only if the amount staked is greater than 10,000.
C10_LargeStakeRule ==
    \A e \in stakeLog : e.alert <=> e.activity.delta > LargeStake

\* the broadcast sends of staking event a to user u
BroadcastCalls(a, u) ==
    {m \in Messages : m.kind = "broadcast" /\ m.activity = a /\ m.to = u}

\* staking event a has been recorded and no sweep is still broadcasting it
Settled(a) ==
    /\ \E r \in RandomValues : isOrderProcessed(a.user, activityId(a, r))
    /\ \A i \in Slots : sweep[i].pc \in {"getAllUsers", "broadcast"} => Head(sweep[i].batch) # a

\* C11: for a staking event whose amount the large-stake test reads as above
\* the threshold, every active user gets the broadcast send exactly once:
\* never twice, and once the event is recorded and no sweep is broadcasting
\* it, not zero times.
C11_BroadcastOnce ==
    \A a \in source : (a.type = "staking_activity" /\ a.amount > LargeStake) =>
        \A u \in Range(getAllUsers) :
            /\ Copies(sent, BroadcastCalls(a, u)) <= 1
            /\ Settled(a) => Copies(sent, BroadcastCalls(a, u)) = 1

RECURSIVE Sum(_)
Sum(s) == IF s = <<>> THEN 0 ELSE Head(s) + Sum(Tail(s))

\* C12: the totalFills of every live TWAP status object is the sum of the
\* numbers of slices of the batches accumulated into it.
C12_TotalFillsIsSum ==
    \A r \in DOMAIN twapObjects : twapObjects[r].totalFills = Sum(twapObjects[r].batches)

\* an order in the live map after two batches, one of them of two slices
C12_Witness ==
    \E k \in DOMAIN activeTwapOrders :
        LET batches == twapObjects[activeTwapOrders[k]].batches
        IN Len(batches) = 2 /\ \E n \in DOMAIN batches : batches[n] = 2

\* the TWAP messages sent to subscriber u
TwapMessages(u, kinds) == {m \in Messages : m.to = u /\ m.kind \in kinds}

\* the three slices are reported and the sweep that fetched the third one
\* has returned
ScenarioOver ==
    /\ Cardinality(Slices) = ScenarioSlices
    /\ \A a \in Slices : a.time <= lastCheckTimes["w1"]
    /\ \A j \in Slots : sweep[j].pc = "idle"

\* what the scenario has in common in both readings of the duration: one
\* "started" message of size 10, nothing for the middle slice, one "completed"
\* message for the third slice with 3 fills, size 10 and pnl 5
ScenarioMessages(u) ==
    /\ TwapMessages(u, {"activity", "broadcast", "twap_cancel"}) = {}
    /\ Copies(sent, TwapMessages(u, {"twap_start"})) <= 1
    /\ Copies(sent, TwapMessages(u, {"twap_complete"})) <= 1
    /\ \A m \in TwapMessages(u, {"twap_start"}) : m.info.size = 10 /\ m.activity.tid = 1
    /\ \A m \in TwapMessages(u, {"twap_complete"}) :
          /\ m.activity.tid = ScenarioSlices
          /\ m.info.totalFills = 3 /\ m.info.size = 10 /\ m.info.pnl = 5
    /\ ScenarioOver => /\ Copies(sent, TwapMessages(u, {"twap_start"})) = 1
                       /\ Copies(sent, TwapMessages(u, {"twap_complete"})) = 1

PublishScenarioFill ==
    /\ \A j \in Slots : sweep[j].pc = "idle"
    /\ lastCheckTimes["w1"] < now
    /\ source = {}
    /\ source' = {Activity("fill", "w1", now, 7, 3, "0xf", 0, 0, 0, FALSE, FALSE, 10, 0)}
    /\ UNCHANGED <<now, tracking, processed, lastCheckTimes, activeTwapOrders,
                   twapObjects, sweep, cmd, runs, sent, idLog, stakeLog, failures,
                   restarts, commands,
                   marketVars, storeLog, addVars>>

\* sweeps that do not overlap, no call fails, one fill
NextFill ==
    \/ TickTwap
    \/ \E i \in Slots : FetchStep(i) \/ DedupStep(i)
    \/ AdvanceGap
    \/ PublishScenarioFill

SpecFill == InitScenario /\ [][NextFill]_vars

\* the bot.sendMessage calls about activity a to subscriber u
SendCalls(a, u) == {m \in Messages : m.activity = a /\ m.to = u}

\* the sweep that fetched activity a has stored the wallet's checkpoint
SweptOver(a) ==
    /\ a.time <= lastCheckTimes[a.user]
    /\ \A j \in Slots : sweep[j].pc = "idle"

\* C14: two subscribers track wallet W and one fill arrives once: never more
\* than one message per subscriber and never more than one record in the
\* processed-event store, and, once the sweep that fetched the fill is over,
\* exactly two messages (one to each subscriber) and exactly one record.
C14_TwoMessagesOneRecord ==
    \A a \in source :
        /\ \A u \in Users : Copies(sent, SendCalls(a, u)) <= 1
        /\ \A m \in Messages : m.kind = "activity" /\ m.activity = a
        /\ Cardinality(processed) <= 1
        /\ SweptOver(a) =>
              /\ \A u \in Users : Copies(sent, SendCalls(a, u)) = 1
              /\ Cardinality(processed) = 1

\* both subscribers have their message, the record is written, and a later
\* sweep has fetched the fill again and found the record
C14_Witness ==
    /\ \E a \in source : SweptOver(a) /\ BagCardinality(sent) = 2
                         /\ \A m \in Messages : m.run = 1 /\ m.ok
    /\ Cardinality(processed) = 1
    /\ runs = 3

\* the message that a step adds to the log of sendMessage calls
Added(m) == CopiesIn(m, sent') > (IF m \in Messages THEN CopiesIn(m, sent) ELSE 0)

\* the batch of slices that sweep s is processing carries the flag
BatchHas(s, flag) == \E n \in DOMAIN sortedFills(s) : sortedFills(s)[n][flag]

\* C15: when the batch of slices of a TWAP order carries both a done flag and
\* a cancelled flag, on the same slice or on different ones, the terminal
\* notification sent for the batch is the cancellation.
C15_CancelWins ==
    [][\A i \in Slots :
          (/\ sweep[i].pc = "twapEnd"
           /\ BatchHas(sweep[i], "isTwapDone")
           /\ BatchHas(sweep[i], "isTwapCancelled"))
          => \A m \in BagToSet(sent') : Added(m) => m.kind = "twap_cancel"]_vars

\* the sweeps that are still sending the terminal notifications of TWAP key k
Ending(k) == {i \in Slots : sweep[i].pc = "twapEnd" /\ twapKey(sweep[i]) = k}

\* C16: once a batch in which some slice of a TWAP order carries a terminal
\* flag has been processed, the order is not in activeTwapOrders: an order
\* in the map that has taken in a terminal flag is one whose terminal
\* notifications are still being sent.
C16_TerminalRemoved ==
    \A k \in DOMAIN activeTwapOrders :
        twapObjects[activeTwapOrders[k]].flagged => Ending(k) # {}

\* the names of a list of instruments
Names(assets) == {assets[n].name : n \in DOMAIN assets}

\* the instruments of `current` whose name is not in `cached`
Difference(current, cached) == {a \in Range(current) : a.name \notin Names(cached)}

\* the invocation returned two empty lists
ReturnedNothing(e) == e.newPerps = <<>> /\ e.newSpots = <<>>

\* the invocation returned the set differences by name of `current` and the
\* snapshot it held
ReturnedDifference(e, current) ==
    /\ Range(e.newPerps) = Difference(current.perps, e.cached.perps)
    /\ Range(e.newSpots) = Difference(current.spots, e.cached.spots)
    /\ Len(e.newPerps) = Cardinality(Range(e.newPerps))
    /\ Len(e.newSpots) = Cardinality(Range(e.newSpots))

\* C17 as stated: the first getNewMarkets invocation after a process start
\* returns nothing, and every later one returns exactly the instruments whose
\* name is in the current perp (spot) universe and not in the snapshot held.
C17_NewMarkets ==
    LET e == marketLog
    IN e.total > 0 =>
          IF e.nth = 1 THEN ReturnedNothing(e)
          ELSE ReturnedDifference(e, IF e.path = "try" THEN e.fetched ELSE e.venue)

\* C17 amended: the first invocation after a process start returns nothing;
\* so does an invocation that holds no snapshot, one less than CacheWindow
\* after the snapshot was taken and one whose fetch of a universe fails, and
\* the last two leave the snapshot as it is; every other invocation returns
\* exactly the instruments whose name is in the fetched perp (spot) universe
\* and not in the snapshot held, and makes the fetched universes the snapshot.
C17_NewMarketsWhenFetched ==
    LET e == marketLog
    IN e.total > 0 =>
          /\ e.nth = 1 => ReturnedNothing(e)
          /\ e.path = "cache" <=> (e.update # 0 /\ e.currentTime - e.update < CacheWindow)
          /\ (e.path \in {"cache", "catch"} \/ ~e.cached.held) => ReturnedNothing(e)
          /\ (e.path = "try" /\ e.cached.held) => ReturnedDifference(e, e.fetched)
          /\ e.path \in {"cache", "catch"}
                => e.cachedAfter = e.cached /\ e.updateAfter = e.update
          /\ e.path = "try"
                => /\ e.cachedAfter = [held |-> TRUE, perps |-> e.fetched.perps,
                                       spots |-> e.fetched.spots]
                   /\ e.updateAfter = e.currentTime

\* the third invocation after the process start held a snapshot, fetched both
\* universes and returned one new perp out of two
C17_Witness ==
    /\ marketLog.nth = 3
    /\ marketLog.path = "try" /\ marketLog.cached.held
    /\ Len(marketLog.newPerps) = 1 /\ Len(marketLog.fetched.perps) = 2

\* C18: markOrderProcessed of a key that is in the store resolves and leaves
\* the store as it was; isOrderProcessed is true of a key after any
\* markOrderProcessed of it and false of every key that was never marked.
C18_MarkIdempotent ==
    LET e == storeLog
    IN /\ (e.call = "markOrderProcessed" /\ <<e.wallet, e.order_id>> \in Keys(e.before))
             => e.result /\ processed = e.before
       /\ e.call = "markOrderProcessed" => isOrderProcessed(e.wallet, e.order_id)
       /\ \A walletAddress \in Wallets, orderId \in OrderIds :
             isOrderProcessed(walletAddress, orderId)
                 <=> <<walletAddress, orderId>> \in e.marked
       /\ e.call = "isOrderProcessed"
             => /\ e.result <=> <<e.wallet, e.order_id>> \in e.marked
                /\ processed = e.before
       /\ Cardinality(Keys(processed)) = Cardinality(processed)

\* a key was marked a second time, later than another key
C18_Witness ==
    /\ storeLog.call = "markOrderProcessed"
    /\ \E row \in storeLog.before :
          /\ <<row.wallet_address, row.order_id>> = <<storeLog.wallet, storeLog.order_id>>
          /\ row.id < lastID(processed)

\* C19: whatever the interleaving of /add and /remove commands, two
\* concurrent /add commands of one user included, no subscriber has more than
\* MAX_TRACKED_WALLETS_PER_USER active tracked wallets.
C19_AtMostMaxWallets ==
    \A u \in Users : activeWallets(u) <= MAX_TRACKED_WALLETS_PER_USER

\* C20: an /add that is rejected, for an invalid address or because the
\* subscriber has the maximum number of active wallets, leaves the
\* subscriptions and lastCheckTimes as they were when it arrived.
C20_RejectedAddChangesNothing ==
    \A slot \in AddSlots :
        (adds[slot].n = commands /\ adds[slot].outcome \in {"invalid", "maximum"})
            => Subscriptions = adds[slot].seen

\* an /add was rejected at the maximum after another /add had succeeded, and
\* its handler has returned
C20_Witness ==
    \E slot \in AddSlots :
        /\ adds[slot].n = commands /\ adds[slot].outcome = "maximum"
        /\ adds[slot].pc = "idle"
        /\ lastCheckTimes[adds[slot].wallet] # 0

\* sweep i calls bot.sendMessage in this step: every step of a sweep resolves
\* the call it was waiting for, and one that ends in a send loop has made the
\* call of the loop's next send
CallsSend(i) ==
    /\ sweep'[i] # sweep[i]
    /\ sweep'[i].pc \in SendLoops

\* C21: every per-wallet notification of wallet W (fill, order, staking, TWAP
\* started, completed, cancelled) is sent to a user whose tracked_wallets row
\* of W is active at the moment of the send, whatever /remove commands ran
\* while the sweep was in flight.
C21_SentToActiveTrackers ==
    [][\A i \in Slots : CallsSend(i) =>
          <<Head(sweep'[i].todo), walletOf(sweep'[i])>> \in tracking']_vars

\* the await hlAPI.getRecentActivity of sweep i resolves in this step
Fetches(i) ==
    /\ sweep[i].pc = "getRecentActivity"
    /\ sweep'[i] # sweep[i]
    /\ restarts' = restarts

\* C22: a request for a wallet's activity that fails is made again a bounded
\* number of times, more than zero, before the wallet's tick is abandoned
\* with the checkpoint advanced.  The sweep keeps no count of attempts, so
\* every failed request is the first attempt of its query: after it the sweep
\* is still fetching the same wallet's activity over the same window.
C22_FailedRequestRetried ==
    [][\A i \in Slots :
          (Fetches(i) /\ failures' > failures) =>
              /\ sweep'[i].pc = "getRecentActivity"
              /\ sweep'[i].wallets = sweep[i].wallets
              /\ sweep'[i].since = sweep[i].since
              /\ lastCheckTimes' = lastCheckTimes]_vars

\* the slices of TWAP order id of wallet w that the venue has reported
SlicesOf(w, id) ==
    {a \in source : a.type = "twap_fill" /\ a.user = w /\ a.twapId = id}

\* C23: a slice that reaches the aggregator in more than one batch is counted
\* once: the totalFills of a live TWAP order never exceeds the number of
\* distinct slices the venue has reported of it, and no subscriber is sent
\* two notifications of the same kind for the same slice.
C23_SliceCountedOnce ==
    /\ \A k \in DOMAIN activeTwapOrders :
          twapObjects[activeTwapOrders[k]].totalFills
              <= Cardinality(SlicesOf(k[1], k[2]))
    /\ \A a \in source, u \in Users :
          a.type = "twap_fill" =>
              \A kind \in {"twap_start", "twap_complete", "twap_cancel"} :
                  Copies(sent, {m \in Messages : m.activity = a /\ m.to = u
                                                 /\ m.kind = kind}) <= 1

\* ------------------------------------------- a TWAP order and restarts
\* Sweeps that never overlap over the slices of the TWAP order of the
\* scenario, with process restarts between and during the sweeps; no call
\* fails.
NextTwapRestart ==
    \/ TickSeq
    \/ \E i \in Slots : FetchStep(i) \/ TwapStep(i)
    \/ AdvanceGap
    \/ PublishScenarioSlice
    \/ Restart

SpecTwapRestart == InitScenario /\ [][NextTwapRestart]_vars

\* sweep i puts TWAP key k into activeTwapOrders in this step
Creates(i, k) ==
    /\ sweep'[i] # sweep[i]
    /\ k \notin DOMAIN activeTwapOrders
    /\ k \in DOMAIN activeTwapOrders'

\* sweep i has sent the last 'started' notification of its batch in this step
Started(i) == sweep[i].pc = "twapStart" /\ LeavesLoop(i)

\* the earliest of a sequence of fills of distinct times
Earliest(fills) ==
    CHOOSE f \in Range(fills) : \A g \in Range(fills) : f.time <= g.time

\* C24: a process restart leaves the live map empty, and the next batch of a
\* TWAP order that was in progress creates a fresh entry, with startTime the
\* time of the batch's earliest slice and totalFills counted from that batch
\* only, and the 'started' notification goes to every subscriber.
C24_FreshAfterRestart ==
    [][/\ restarts' > restarts => activeTwapOrders' = <<>>
       /\ \A i \in Slots :
             /\ \A k \in DOMAIN activeTwapOrders' :
                   Creates(i, k) =>
                       LET status == twapObjects'[activeTwapOrders'[k]]
                       IN /\ k = twapKey(sweep'[i])
                          /\ status.startTime = Earliest(Head(sweep'[i].groups).fills).time
                          /\ status.totalFills = 0
                          /\ sweep'[i].pc = "twapStart"
                          /\ sweep'[i].todo = getUsersTrackingWallet(k[1])
             /\ Started(i) =>
                   /\ twapKey(sweep[i]) \in DOMAIN activeTwapOrders'
                   /\ twapObjects'[activeTwapOrders'[twapKey(sweep[i])]].totalFills
                          = Len(Head(sweep[i].groups).fills)
                   /\ \A u \in Range(getUsersTrackingWallet(walletOf(sweep[i]))) :
                         \E m \in BagToSet(sent') :
                             /\ m.run = sweep[i].run /\ m.to = u
                             /\ m.kind = "twap_start"
                             /\ m.activity.time
                                    = Earliest(Head(sweep[i].groups).fills).time]_vars

\* an order whose first slices were counted before a restart is in the map
\* again, created by the sweep after the restart, which has sent 'started' to
\* both subscribers a second time
C24_Witness ==
    /\ restarts = 1
    /\ \E k \in DOMAIN activeTwapOrders :
          /\ twapObjects[activeTwapOrders[k]].totalFills >= 2
          /\ \A u \in Users :
                \E m1 \in Messages, m2 \in Messages :
                    /\ m1.to = u /\ m2.to = u
                    /\ m1.kind = "twap_start" /\ m2.kind = "twap_start"
                    /\ m1.run < m2.run

\* ------------------------------------------- the event source adapter
\* activities the venue publishes for the adapter
MaxFetched == 2

\* the venue reports an activity of any of the four kinds that
\* getRecentActivity queries
PublishAny == \E w \in Wallets, n \in DOMAIN Queries :
    publishUpTo(Activity(Queries[n], w, now, 7, n, "0xf", 0, 0,
                         IF Queries[n] = "twap_fill" THEN 1 ELSE 0,
                         FALSE, FALSE, 10, 0),
                MaxFetched)

\* Sweeps that never overlap over a wallet with activities of several kinds.
NextAdapter ==
    \/ TickSeq
    \/ \E i \in Slots : FetchStep(i) \/ DedupStep(i) \/ TwapStartSend(i)
    \/ PublishAny

SpecAdapter == Init /\ [][NextAdapter]_vars

\* what the getRecentActivity call of sweep i resolved with in this step: a
\* non-empty array is in recentActivity, after an empty one the sweep has
\* left the wallet
Resolved(i) ==
    IF sweep'[i].pc = "getUsersTrackingWallet" THEN sweep'[i].recent ELSE <<>>

\* C25: a fetch of the adapter whose upstream request fails returns an empty
\* collection instead of raising, and getRecentActivity with some of its
\* four queries failed resolves (the sweep does not take its catch path)
\* with every activity of the wallet after the since-time that the other
\* queries returned, and with nothing from the failed ones.
C25_FailedQueryIsEmpty ==
    [][\A i \in Slots : Fetches(i) =>
          /\ \/ sweep'[i].pc = "getUsersTrackingWallet"
             \/ lastCheckTimes'[walletOf(sweep[i])] = now
          /\ \E failed \in SUBSET Range(Queries) :
                /\ Cardinality(failed) = failures' - failures
                /\ Range(Resolved(i)) =
                       {a \in source : /\ a.user = walletOf(sweep[i])
                                       /\ a.time > sweep[i].since
                                       /\ a.type \notin failed}]_vars

\* the first sweep has fetched the wallet with two activities of different
\* kinds published, one query failed and the activity of the other kind is
\* in the result
C25_Witness ==
    /\ runs = 1 /\ failures = 1
    /\ Cardinality({a.type : a \in source}) = 2
    /\ \E i \in Slots :
          /\ sweep[i].pc = "getUsersTrackingWallet"
          /\ Len(sweep[i].recent) = 1

\* sweep i reads lastCheckTimes for the next wallet of its list and calls
\* getRecentActivity in this step
StartsWallet(i) ==
    /\ sweep'[i] # sweep[i]
    /\ sweep'[i].pc = "getRecentActivity"

\* C26: the since-time of a wallet's fetch is Date.now() minus 60 seconds when
\* the wallet has no entry in lastCheckTimes at the moment the sweep turns to
\* it, and exactly lastCheckTimes[wallet] otherwise.
C26_SinceTime ==
    [][\A i \in Slots : StartsWallet(i) =>
          LET w == walletOf(sweep'[i])
          IN /\ lastCheckTimes'[w] = 0 => sweep'[i].since = now' - 60 * 1000
             /\ lastCheckTimes'[w] # 0 => sweep'[i].since = lastCheckTimes'[w]]_vars

\* the second sweep fetches w2 from the checkpoint the first sweep set, a
\* look-back period ago
C26_Witness ==
    \E i \in Slots :
        /\ sweep[i].pc = "getRecentActivity" /\ sweep[i].run = 2
        /\ walletOf(sweep[i]) = "w2"
        /\ sweep[i].since = lastCheckTimes["w2"]
        /\ sweep[i].since = now - DefaultLookback
        /\ lastCheckTimes["w1"] = now

\* ------------------------------------- a TWAP order among other activity
\* Sweeps that never overlap over the slices of one TWAP order and a fill of
\* the same wallet; no call fails.
NextAccumulate ==
    \/ TickSeq
    \/ \E i \in Slots : FetchStep(i) \/ DedupStep(i) \/ TwapStep(i)
    \/ AdvanceGap
    \/ PublishSlice
    \/ PublishFill

SpecAccumulate == InitScenario /\ [][NextAccumulate]_vars

\* the batches of TWAP fills in what sweep i has fetched, sorted by time
Batches(i) ==
    LET groups == groupTwapFills(sweep[i].recent, <<>>)
    IN {[key |-> <<walletOf(sweep[i]), groups[g].twapId>>,
         fills |-> SortByTime(groups[g].fills, TRUE)] : g \in DOMAIN groups}

\* sweep i begins to process what it has fetched, and all of it is slices of
\* TWAP orders that are in the live map, the last slice of each batch without
\* a terminal flag
Accumulates(i) ==
    /\ sweep[i].pc = "getUsersTrackingWallet"
    /\ sweep'[i] # sweep[i]
    /\ nonTwapActivities(sweep[i].recent) = <<>>
    /\ \A b \in Batches(i) :
          /\ b.key \in DOMAIN activeTwapOrders
          /\ ~IsTerminal(b.fills[Len(b.fills)])

\* C27: a batch of slices of a TWAP order that is in the live map, whose
\* chronologically last slice carries no terminal flag, emits no notification
\* (the sweep adds the batch to totalFills and leaves the wallet), and no
\* notification of a single activity is ever sent for a TWAP slice.
C27_AccumulationIsSilent ==
    [][/\ \A i \in Slots : Accumulates(i) =>
             /\ sent' = sent
             /\ sweep'[i].pc \notin SendLoops
             /\ \A b \in Batches(i) :
                   /\ b.key \in DOMAIN activeTwapOrders'
                   /\ twapObjects'[activeTwapOrders'[b.key]].totalFills =
                          twapObjects[activeTwapOrders[b.key]].totalFills + Len(b.fills)
       /\ \A m \in BagToSet(sent') :
             m.activity.type = "twap_fill" =>
                 m.kind \in {"twap_start", "twap_complete", "twap_cancel"}]_vars

\* an order in the live map whose second batch, of two slices without a
\* terminal flag, has been added after the sweep that sent 'started', while
\* the fill of the wallet has been notified on its own
C27_Witness ==
    /\ \E k \in DOMAIN activeTwapOrders :
          twapObjects[activeTwapOrders[k]].batches = <<1, 2>>
    /\ \A j \in Slots : sweep[j].pc = "idle"
    /\ \A m \in Messages : m.run = 1
    /\ \E m \in Messages : m.kind = "activity"
    /\ \E m \in Messages : m.kind = "twap_start"
    /\ runs = 2

\* ------------------------------------- a TWAP order of unlike slices
\* The venue reports the next slice of TWAP order 1 of w1: slice n is of size
\* 10 n, and the slices alternate in coin and side, so that each field of an
\* entry or a message tells which slice it was taken from.
PublishVariedSlice == \E done \in BOOLEAN :
    LET n == Cardinality(Slices) + 1
    IN /\ n <= MaxSlices
       /\ \A a \in Slices : a.time < now
       /\ source' = source \cup
              {[slice_("w1", done, FALSE) EXCEPT
                    !.sz = 10 * n,
                    !.coin = IF n % 2 = 1 THEN "ETH" ELSE "PURR/USDC",
                    !.side = IF n % 2 = 1 THEN "B" ELSE "A"]}
       /\ UNCHANGED <<now, tracking, processed, lastCheckTimes, activeTwapOrders,
                      twapObjects, sweep, cmd, runs, sent, idLog, stakeLog, failures,
                      restarts, commands, marketVars, storeLog, addVars>>

\* Sweeps that never overlap over a TWAP order of unlike slices; no call fails.
NextFirstSeen ==
    \/ TickSeq
    \/ \E i \in Slots : FetchStep(i) \/ TwapStep(i)
    \/ AdvanceGap
    \/ PublishVariedSlice

SpecFirstSeen == InitScenario /\ [][NextFirstSeen]_vars

\* C28: when a TWAP order is first seen, the entry put into the live map and
\* every 'started' notification take coin, side, size and time from the
\* earliest slice of the batch, in whatever order the batch was delivered.
C28_StartFromEarliest ==
    [][\A i \in Slots :
          /\ \A k \in DOMAIN activeTwapOrders' :
                Creates(i, k) =>
                    LET first  == Earliest(Head(sweep'[i].groups).fills)
                        status == twapObjects'[activeTwapOrders'[k]]
                    IN /\ status.coin = first.coin
                       /\ status.side = first.side
                       /\ status.initialSize = first.sz
                       /\ status.startTime = first.time
          /\ (sweep[i].pc = "twapStart" /\ sweep'[i] # sweep[i]) =>
                \A m \in BagToSet(sent') :
                    Added(m) =>
                        LET first == Earliest(Head(sweep[i].groups).fills)
                        IN /\ m.kind = "twap_start"
                           /\ m.activity = first
                           /\ m.info.pair = first.coin
                           /\ m.info.side = first.side
                           /\ m.info.size = first.sz
                           /\ m.info.time = first.time]_vars

\* a first batch of two slices delivered newest first: the entry and the
\* 'started' notification sent so far are those of the older slice
C28_Witness ==
    \E i \in Slots :
        /\ sweep[i].pc = "twapStart"
        /\ LET fills == Head(sweep[i].groups).fills
           IN /\ Len(fills) = 2
              /\ fills[1].time > fills[2].time
              /\ twapKey(sweep[i]) \in DOMAIN activeTwapOrders
              /\ twapObjects[activeTwapOrders[twapKey(sweep[i])]].initialSize = fills[2].sz
              /\ twapObjects[activeTwapOrders[twapKey(sweep[i])]].coin = "ETH"
              /\ \E m \in Messages : m.kind = "twap_start" /\ m.info.size = fills[2].sz
                                     /\ m.info.pair = "ETH"

\* the latest of a sequence of fills of distinct times
Latest(fills) ==
    CHOOSE f \in Range(fills) : \A g \in Range(fills) : g.time <= f.time

\* C29: the slices of a batch are taken in ascending order of time, and
\* totalFills is raised by the whole batch before the terminal flag is
\* looked at: a terminal notification is about the latest slice of the batch
\* and reports a fill count that includes every slice of the batch.
C29_WholeBatchCounted ==
    [][\A i \in Slots :
          (sweep[i].pc = "twapEnd" /\ sweep'[i] # sweep[i]) =>
              \A m \in BagToSet(sent') :
                  Added(m) =>
                      LET fills  == Head(sweep[i].groups).fills
                          status == twapObjects[sweep[i].twapStatus]
                      IN /\ m.kind \in {"twap_complete", "twap_cancel"}
                         /\ m.activity = Latest(fills)
                         /\ m.info.totalFills = status.totalFills
                         /\ status.totalFills = Sum(status.batches)
                         /\ status.batches # <<>>
                         /\ status.batches[Len(status.batches)] = Len(fills)]_vars

\* the second sweep has sent a completion for a batch of two slices, the
\* later one done; it reports the three slices of the order
C29_Witness ==
    \E m \in Messages :
        /\ m.kind = "twap_complete" /\ m.run = 2
        /\ m.activity.sz = 30
        /\ m.info.totalFills = 3
        /\ m.info.size = 10

\* sweep i reaches the test of lastFill's flags for its batch in this step:
\* either the key was in the map when the batch was grouped, or the last
\* 'started' send resolves; in both cases activeTwapOrders.get returns the
\* entry, so that the line before the test does not throw
Examines(i) ==
    /\ sweep'[i] # sweep[i]
    /\ restarts' = restarts
    /\ \/ /\ sweep[i].pc = "getUsersTrackingWallet"
          /\ failures' = failures
          /\ nonTwapActivities(sweep[i].recent) = <<>>
          /\ \E b \in Batches(i) : b.key \in DOMAIN activeTwapOrders
       \/ /\ sweep[i].pc = "twapStart"
          /\ Tail(sweep[i].todo) = <<>>
          /\ twapKey(sweep[i]) \in DOMAIN activeTwapOrders

\* the batch of TWAP fills that sweep i has in hand, as delivered
InHand(i) ==
    IF sweep[i].pc = "getUsersTrackingWallet"
    THEN groupTwapFills(sweep[i].recent, <<>>)[1].fills
    ELSE Head(sweep[i].groups).fills

\* the kinds of the terminal notifications
Terminal == {"twap_complete", "twap_cancel"}

\* C30: a sweep that reaches the terminal check for a batch of a TWAP order
\* emits a terminal notification if and only if the chronologically last
\* slice of the batch carries a terminal flag: a cancellation when that slice
\* carries the cancelled flag, a completion when it carries the done flag
\* only; and the sweep that emits it removes the entry from the live map when
\* the notifications are sent.
C30_TerminalIffLastFlagged ==
    [][/\ \A i \in Slots :
             /\ Examines(i) =>
                   (sweep'[i].pc = "twapEnd" <=> IsTerminal(Latest(InHand(i))))
             /\ (sweep[i].pc = "twapEnd" /\ sweep'[i] # sweep[i] /\ restarts' = restarts) =>
                   LET lastFill == Latest(InHand(i))
                   IN /\ IsTerminal(lastFill)
                      /\ \E m \in BagToSet(sent') :
                            /\ Added(m) /\ m.to = Head(sweep[i].todo)
                            /\ m.activity = lastFill
                            /\ m.kind = IF lastFill.isTwapCancelled
                                        THEN "twap_cancel" ELSE "twap_complete"
                      /\ Tail(sweep[i].todo) = <<>> =>
                            twapKey(sweep[i]) \notin DOMAIN activeTwapOrders'
       /\ \A m \in BagToSet(sent') :
             (Added(m) /\ m.kind \in Terminal) =>
                 \E i \in Slots : sweep[i].pc = "twapEnd" /\ sweep[i].run = m.run]_vars

\* the second sweep found the order in the map, its batch ended with a
\* cancelled slice, the cancellation is sent and the entry is gone
C30_Witness ==
    /\ activeTwapOrders = <<>>
    /\ \A j \in Slots : sweep[j].pc = "idle"
    /\ \E m1 \in Messages, m2 \in Messages :
          /\ m1.kind = "twap_start" /\ m1.run = 1
          /\ m2.kind = "twap_cancel" /\ m2.run = 2
          /\ m2.activity.isTwapCancelled
    /\ \A m \in Messages : m.kind # "twap_complete"

\* C31: the processed-event store only grows: every step of the program
\* keeps every record (id, wallet, event id) that is in the store, so a key
\* that isOrderProcessed finds is found ever after.
C31_StoreOnlyGrows ==
    [][/\ processed \subseteq processed'
       /\ Keys(processed) \subseteq Keys(processed')]_vars

\* three records are in the store, and the latest call, isOrderProcessed of
\* the key that was marked first, has found it
C31_Witness ==
    /\ Cardinality(processed) = 3
    /\ storeLog.call = "isOrderProcessed" /\ storeLog.result
    /\ \E row \in processed :
          /\ row.id = 1
          /\ <<row.wallet_address, row.order_id>> = <<storeLog.wallet, storeLog.order_id>>

\* ------------------------------------------- fills of one order
\* The venue reports a fill of order 7 of w1: an order that is matched against
\* several resting orders at once is filled in parts that carry the same oid
\* and time and their own tid.
PublishPartialFill == \E tid \in {3, 4} :
    publishUpTo(Activity("fill", "w1", now, 7, tid, "0xf", 0, 0, 0, FALSE, FALSE, 10, 0),
                MaxFetched)

\* Sweeps that never overlap over the partial fills of one order; no call
\* fails.
NextPartial ==
    \/ TickSeq
    \/ \E i \in Slots : FetchStep(i) \/ DedupStep(i)
    \/ Advance
    \/ PublishPartialFill

SpecPartial == InitScenario /\ [][NextPartial]_vars

\* C32: two distinct non-sliced activities of one wallet never get the same
\* dedup key, and so each of them is notified: once a sweep has examined an
\* activity and no sweep is at work, every subscriber has been sent a
\* notification of it.
C32_DistinctKeys ==
    /\ \A p \in idLog, q \in idLog :
          (p[1] # q[1] /\ p[1].user = q[1].user) => p[2] # q[2]
    /\ \A a \in NonSliced, u \in Users :
          (/\ <<u, a.user>> \in tracking
           /\ \A i \in Slots : sweep[i].pc = "idle"
           /\ \E p \in idLog : p[1] = a)
          => \E m \in Messages : m.activity = a /\ m.to = u /\ m.kind = "activity"

\* sweep i writes the checkpoint of the wallet it has fetched
Checkpoints(i) ==
    /\ sweep[i].pc \notin {"idle", "getAllTrackedWallets"}
    /\ sweep'[i] # sweep[i]
    /\ sweep'[i].pc \in {"idle", "getRecentActivity"}
    /\ lastCheckTimes'[walletOf(sweep[i])] # lastCheckTimes[walletOf(sweep[i])]

\* the clock when sweep i fetched the wallet it is processing
fetchTime(i) ==
    IF sweep[i].pc = "getRecentActivity" THEN now ELSE sweep[i].fetched

\* C33: without restarts, failures or subscription changes the fetch windows
\* (since, fetch time] of consecutive sweeps of a wallet are contiguous: the
\* checkpoint a sweep leaves, which is the since-time of the next sweep, is
\* the time of its own fetch, so that no timestamp falls between two windows.
C33_ContiguousWindows ==
    [][\A i \in Slots : Checkpoints(i) =>
          lastCheckTimes'[walletOf(sweep[i])] = fetchTime(i)]_vars

\* --------------------------------------- sweeps and subscription commands
\* Sweeps that never overlap, and /add and /remove commands that arrive one
\* at a time at any point of a sweep; no call fails.
NextSubscriptions ==
    \/ TickSeq
    \/ \E i \in Slots : FetchStep(i) \/ DedupStep(i)
    \/ Advance
    \/ PublishFill
    \/ \E slot \in AddSlots : AddCommand(slot, TRUE)
    \/ \E slot \in AddSlots : AddStep(slot)
    \/ RemoveAlone
    \/ RemoveReply

SpecSubscriptions == InitScenario /\ [][NextSubscriptions]_vars

\* a handler of a command of user u about wallet w takes a step
CommandStep(u, w) ==
    \/ cmd.user = u /\ cmd.wallet = w /\ cmd' # cmd
    \/ \E slot \in AddSlots :
          adds[slot].user = u /\ adds[slot].wallet = w /\ adds'[slot] # adds[slot]

\* C34: an /add or /remove of wallet w by one subscriber leaves what decides
\* the notifications of the other subscribers of w as it is: their
\* subscriptions, and the since-time of the next fetch of w, so that no
\* activity of w is skipped or fetched again for them.
C34_OthersUnaffected ==
    [][\A u \in Users, w \in Wallets :
          (CommandStep(u, w) /\ \E o \in Users \ {u} : <<o, w>> \in tracking) =>
             /\ lastCheckTimes'[w] = lastCheckTimes[w]
             /\ \A o \in Users \ {u} : <<o, w>> \in tracking' <=> <<o, w>> \in tracking]_vars

\* --------------------------------------------- sweeps and /remove
\* Cron ticks that do not wait for the sweep in flight, the clock and /remove
\* commands; the venue reports nothing and no subscription is added, so a
\* subscription that exists has existed from the start.
NextRemove ==
    \/ StartSweep(MaxSweeps)
    \/ \E i \in Slots : GetAllTrackedWallets(i) \/ GetRecentActivity(i)
    \/ Advance
    \/ Remove
    \/ RemoveReply

SpecRemove == InitScenario /\ [][NextRemove]_vars

\* sweep i has taken its since-time for wallet w and has not finished with w
HoldsSince(i, w) ==
    /\ sweep[i].pc \notin {"idle", "getAllTrackedWallets"}
    /\ walletOf(sweep[i]) = w

\* C35: for a wallet that stays tracked the since-times of successive sweeps
\* never decrease: a sweep that turns to the wallet does not take a since-time
\* earlier than the one a sweep took before it.
C35_SinceNeverDecreases ==
    [][\A w \in Wallets, i \in Slots, j \in Slots :
          (/\ StartsWallet(j) /\ walletOf(sweep'[j]) = w
           /\ i # j /\ HoldsSince(i, w)
           /\ \E u \in Users : <<u, w>> \in tracking')
          => sweep[i].since <= sweep'[j].since]_vars

\* C36: removeTrackedWallet returns true only when the subscriber was actively
\* tracking the wallet before the call; a /remove of a wallet that the
\* subscriber does not track (unknown, or removed already) is answered 'not
\* found' and leaves the subscriptions and lastCheckTimes as they are.
C36_RemoveOnlyWhatIsTracked ==
    [][/\ (cmd.pc = "idle" /\ cmd'.pc = "removed")
              => <<cmd'.user, cmd'.wallet>> \in tracking
       /\ (cmd.pc = "idle" /\ cmd'.pc # "idle"
           /\ <<cmd'.user, cmd'.wallet>> \notin tracking)
              => cmd'.pc = "notFound" /\ tracking' = tracking
       /\ (cmd.pc = "notFound" /\ cmd'.pc = "idle")
              => lastCheckTimes' = lastCheckTimes]_vars

\* ------------------------------------------ market checks of one process
\* The market job of a process that is not restarted: one invocation at a
\* time, requests that may fail, and a venue that lists instruments.
NextListings ==
    \/ TickMarkets
    \/ GetMeta
    \/ GetSpotMeta
    \/ ListMarket

SpecListings == Init /\ [][NextListings]_vars

\* the names the invocation that returns in this step returns as new
ReturnsNew(pool) ==
    IF marketLog' = marketLog THEN {}
    ELSE Names(IF pool = "perps" THEN marketLog'.newPerps ELSE marketLog'.newSpots)

\* C37: a name that appears after the baseline snapshot and stays listed is
\* returned as new by exactly one getNewMarkets invocation.  In every step: a
\* name is returned as new only if the snapshot does not hold it, and the
\* snapshot holds it from then on; a listed name never leaves the snapshot;
\* after the baseline a name enters the snapshot only in the invocation that
\* returns it; a throttled or failed invocation leaves the snapshot as it is.
C37_ReturnedByOneInvocation ==
    [][/\ \A pool \in {"perps", "spots"} :
          \A n \in Names(Listings[pool]) \cup Names(universe[pool]) :
             /\ n \in ReturnsNew(pool)
                   => /\ n \notin Names(cachedMarkets[pool])
                      /\ n \in Names(cachedMarkets'[pool])
             /\ (n \in Names(cachedMarkets[pool]) /\ n \in Names(universe'[pool]))
                   => n \in Names(cachedMarkets'[pool])
             /\ (/\ cachedMarkets.held
                 /\ n \notin Names(cachedMarkets[pool])
                 /\ n \in Names(cachedMarkets'[pool]))
                   => n \in ReturnsNew(pool)
       /\ (marketLog' # marketLog /\ marketLog'.path \in {"cache", "catch"})
             => cachedMarkets' = cachedMarkets /\ lastMarketUpdate' = lastMarketUpdate]_vars

\* after the baseline an invocation failed while ETH was listed, and the
\* third invocation returns ETH as new
C37_Witness ==
    /\ marketLog.nth = 3 /\ marketLog.path = "try"
    /\ failures = 1
    /\ "ETH" \notin Names(marketLog.cached.perps)
    /\ Names(marketLog.newPerps) = {"ETH"}
    /\ "ETH" \in Names(cachedMarkets.perps)

\* ------------------------------------------ sweeps that never stop coming
\* cron fires when the previous sweep has returned, again and again; the
\* sweeps after the first MaxSweeps carry the number MaxSweeps
TickForever ==
    /\ \A j \in Slots : sweep[j].pc = "idle"
    /\ runs' = IF runs < MaxSweeps THEN runs + 1 ELSE runs
    /\ sweep' = [sweep EXCEPT ![1] = [Idle EXCEPT !.pc = "getAllTrackedWallets",
                                                  !.run = runs']]
    /\ UNCHANGED <<now, source, tracking, processed, lastCheckTimes,
                   activeTwapOrders, twapObjects, cmd, sent, idLog, stakeLog,
                   failures, restarts, commands,
                   marketVars, storeLog, addVars>>

\* The venue reports the next slice of TWAP order 1 of w1, the last one with
\* the done flag: it is stamped later than the slices before it, later than
\* the checkpoint of w1 and later than the fetch of a sweep that is at work
\* on w1, and none follows the terminal slice.
PublishOrderSlice == \E done \in BOOLEAN :
    /\ Cardinality(Slices) < MaxSlices
    /\ lastCheckTimes["w1"] < now
    /\ \A a \in Slices : a.time < now /\ ~IsTerminal(a)
    /\ \A i \in Slots :
          sweep[i].pc \notin {"idle", "getAllTrackedWallets", "getRecentActivity"}
             => sweep[i].fetched < now
    /\ source' = source \cup {slice_("w1", done, FALSE)}
    /\ UNCHANGED <<now, tracking, processed, lastCheckTimes, activeTwapOrders,
                   twapObjects, sweep, cmd, runs, sent, idLog, stakeLog, failures,
                   restarts, commands,
                   marketVars, storeLog, addVars>>

SweepStep == \E i \in Slots : FetchStep(i) \/ TwapStep(i)

NextForever ==
    \/ TickForever
    \/ SweepStep
    \/ AdvanceGap
    \/ PublishOrderSlice

\* cron fires every POLLING_INTERVAL seconds for as long as the process runs,
\* and every awaited call of a sweep settles; no call fails.
SpecForever ==
    /\ InitScenario /\ [][NextForever]_vars
    /\ WF_vars(TickForever) /\ WF_vars(SweepStep)

\* C38: a sliced order whose terminal slice the venue has published while
\* its wallet is tracked is eventually out of activeTwapOrders.
C38_TerminatedOrderLeavesMap ==
    (\E a \in Slices : IsTerminal(a)) ~> (<<"w1", 1>> \notin DOMAIN activeTwapOrders)

\* sweep i is at work on the staking event of record e: in the broadcast or
\* in the loop over the subscribers
AtWorkOn(i, e) ==
    /\ sweep[i].run = e.run
    /\ sweep[i].pc \in {"getAllUsers", "broadcast", "sendMessage"}
    /\ Head(sweep[i].batch) = e.activity

\* the sends of the staking notification of record e to subscriber u
SubscriberCalls(e, u) ==
    {m \in Messages : /\ m.kind = "activity" /\ m.run = e.run
                      /\ m.activity = e.activity /\ m.to = u}

\* C39: a failure inside the large-stake broadcast (getAllUsers rejected, or a
\* broadcast send rejected) does not keep the subscribers of the staking wallet
\* from their notification of the event: once the sweep has left a large
\* staking event, the send to every subscriber of the wallet has been made.
C39_SubscribersNotifiedAnyway ==
    \A e \in stakeLog :
        (e.alert /\ \A i \in Slots : ~AtWorkOn(i, e)) =>
            \A u \in Users : <<u, e.activity.user>> \in tracking
                                => SubscriberCalls(e, u) # {}

\* getAllUsers was rejected for a large staking event of w1 (no broadcast send
\* was made), and u1 and u2 were sent their notification of it
C39_Witness ==
    \E e \in stakeLog :
        /\ e.alert /\ e.activity.user = "w1"
        /\ failures = 1
        /\ \A i \in Slots : sweep[i].pc = "idle"
        /\ \A u \in Users : BroadcastCalls(e.activity, u) = {}
        /\ \A u \in Users : \E m \in SubscriberCalls(e, u) : m.ok

====
